---- MODULE Spec2Model ----
(***************************************************************************)
(* Model of the osm-geojson A-Frame component of osm4vr (the newer of the  *)
(* two versions bundled in src/unnamed/part_000, lines 598-1194): the      *)
(* tile-based incremental building loader, the reset in update(), the      *)
(* asynchronous Overpass fetches and static geojson load, and the          *)
(* building / building:part reconciliation of filterBuildingParts.         *)
(*                                                                         *)
(* Numbers.  JavaScript doubles are carried as exact rationals or fixed    *)
(* point integers:                                                         *)
(*  - lengths on the plane (pos, radius_m, tileSize_m, outlines) are       *)
(*    integers in units of EQUATOR_M / 5760 metres, so that the tile       *)
(*    widths of the modelled zoom levels and latitudes are integers;       *)
(*  - fractional tile ids (tileBase) are integers in units of 1/FP tile;   *)
(*  - lat / lon of the origin and of feature outlines are whole degrees,   *)
(*    the corners of tile bounding boxes are millidegrees;                 *)
(*  - Math.cos and the Mercator functions are tabulated at the latitudes   *)
(*    the model uses;                                                      *)
(*  - OSM tag values are strings, carried as tuples of one-character       *)
(*    strings (<<"1","0">> is "10"), parsed numbers are in thousandths.    *)
(***************************************************************************)
EXTENDS Integers, Sequences, FiniteSets, TLC

VARIABLES
  data,            \* this.data: [lat, lon, src, radius_m, zoom, trackId]
  tileSize_m,      \* this.tileSize_m
  tileBase,        \* this.tileBase: <<x, y>> fractional tile id of the origin
  tilesLoaded,     \* this.tilesLoaded: set of tile keys
  featuresLoaded,  \* this.featuresLoaded: set of feature ids whose entry is true
  scene,           \* children of this.el: one entity per completed addBuildings
  trackElement,    \* this.trackElement is set (TRUE) or null (FALSE)
  fetches,         \* every Overpass request issued so far, with its promise state
  srcLoads,        \* every FileLoader.load issued so far, with its state
  epoch,           \* history: number of update() calls so far
  lastTickPos,     \* history: [set, pos], the position used by the last tick since the last update()
  lastOp,          \* history: the operation that produced this state
  fIn,             \* filterBuildingParts harness: the batch handed to the function
  fOut             \* filterBuildingParts harness: <<>>, or <<r>> with r the values of the finished call

vars == <<data, tileSize_m, tileBase, tilesLoaded, featuresLoaded, scene,
          trackElement, fetches, srcLoads, epoch, lastTickPos, lastOp,
          fIn, fOut>>

Null == "null"

-----------------------------------------------------------------------------
(* Bounds of the model                                                     *)

MaxUpdates == 2     \* update() calls in one behaviour
MaxFetches == 3     \* Overpass requests issued in one behaviour
MaxParts == 3       \* building parts in a batch of the filterBuildingParts harness
MaxBatch == 3       \* features in a batch of the addBuildings harness

-----------------------------------------------------------------------------
(* Arithmetic helpers                                                      *)

Max(a, b) == IF a >= b THEN a ELSE b
Min(a, b) == IF a <= b THEN a ELSE b

\* Math.floor(n / d) and Math.ceil(n / d) for d > 0
Floor(n, d) == n \div d
Ceil(n, d) == -((-n) \div d)

\* JavaScript's remainder a % n: the result has the sign of the dividend
JsMod(a, n) == IF a >= 0 THEN a % n ELSE -((-a) % n)

SetMin(S) == CHOOSE m \in S : \A s \in S : m <= s
SetMax(S) == CHOOSE m \in S : \A s \in S : m >= s

\* ToInt32(y * 2^zoom): JavaScript's y << zoom for an integer y >= 0, 2 <= zoom <= 30
ShiftLeft32(y, zoom) ==
  LET r == y % (2 ^ (32 - zoom))
  IN  IF r < 2 ^ (31 - zoom) THEN r * 2 ^ zoom
      ELSE (r - 2 ^ (32 - zoom)) * 2 ^ zoom

-----------------------------------------------------------------------------
(* Constants of init()                                                     *)

FP == 360                  \* denominator of fractional tile ids
EQUATOR_M == 16 * 360      \* equatorial circumference, in length units
POLES_M == 5750            \* polar circumference, in length units (40007863 / 40075017 * 5760)
LEVEL_HEIGHT_M == 3
DEFAULT_BUILDING_HEIGHT_M == 6

\* Math.cos(lat * Math.PI / 180) as <<numerator, denominator>>
Cos(lat) == IF lat = 60 \/ lat = -60 THEN <<1, 2>> ELSE <<1, 1>>

\* Math.log(Math.tan(latRad) + 1 / Math.cos(latRad)) / Math.PI, in units of 1/FP
Mercator(lat) == IF lat = 60 THEN 151 ELSE IF lat = -60 THEN -151 ELSE 0

\* 180 * Math.atan(Math.sinh(Math.PI * k / 16)) / Math.PI in millidegrees, k \in 0..16
Gudermann16 ==
  <<11178, 21943, 31952, 40980, 48922, 55777, 61606, 66513,
    70613, 74020, 76841, 79171, 81093, 82676, 83979, 85051>>

\* 180 * Math.atan(Math.sinh(Math.PI * (n / d))) / Math.PI in millidegrees,
\* for n / d a multiple of 1/16 in [-1, 1]
InvMercator(n, d) ==
  LET k == (16 * n) \div d
  IN  IF k = 0 THEN 0
      ELSE IF k > 0 THEN Gudermann16[k]
      ELSE -Gudermann16[-k]

-----------------------------------------------------------------------------
(* Projection and tile math                                                *)

lat2tileWidth_m(lat, zoom) ==
  LET nTiles == 2 ^ zoom
      c == Cos(lat)
  IN  (EQUATOR_M * c[1]) \div (c[2] * nTiles)

\* returns <<x, y>> in units of 1/FP tile
latlon2fractionalTileId(lat, lon, zoom) ==
  LET nTiles == 2 ^ zoom
      x == (nTiles * (lon + 180) * FP) \div 360
      y == (nTiles * (FP - Mercator(lat))) \div 2
  IN  <<x, y>>

\* tile2bbox with the rows of north and south exchanged
tile2bbox_flipped(x, y, zoom) ==
  LET nTiles == 2 ^ zoom
      north == InvMercator(nTiles - 2 * (y + 1), nTiles)
      south == InvMercator(nTiles - 2 * y, nTiles)
      west == (x * 360000) \div nTiles - 180000
      east == ((x + 1) * 360000) \div nTiles - 180000
  IN  <<south, west, north, east>>

\* [south, west, north, east] in millidegrees
tile2bbox(x, y, zoom) ==
  LET nTiles == 2 ^ zoom
      north == InvMercator(nTiles - 2 * y, nTiles)
      south == InvMercator(nTiles - 2 * (y + 1), nTiles)
      west == (x * 360000) \div nTiles - 180000
      east == ((x + 1) * 360000) \div nTiles - 180000
  IN  <<south, west, north, east>>

\* a ring of <<lon, lat>> positions to a sequence of Vector2 [x, y] on the plane
geojsonCoords2plane(coords, baseLat, baseLon) ==
  LET cs == IF Len(coords) = 1 /\ Len(coords[1]) > 2 THEN coords[1] ELSE coords
      c == Cos(baseLat)
  IN  [i \in 1..Len(cs) |->
        [x |-> ((cs[i][1] - baseLon) * EQUATOR_M * c[1]) \div (360 * c[2]),
         y |-> ((cs[i][2] - baseLat) * POLES_M) \div 360]]

\* new THREE.Box2().setFromPoints(points), for a non-empty sequence of points
Box2FromPoints(points) ==
  [minX |-> SetMin({points[i].x : i \in DOMAIN points}),
   minY |-> SetMin({points[i].y : i \in DOMAIN points}),
   maxX |-> SetMax({points[i].x : i \in DOMAIN points}),
   maxY |-> SetMax({points[i].y : i \in DOMAIN points})]

\* THREE.Box2.containsBox
containsBox(a, b) ==
  /\ a.minX <= b.minX /\ b.maxX <= a.maxX
  /\ a.minY <= b.minY /\ b.maxY <= a.maxY

-----------------------------------------------------------------------------
(* Strings and numbers of tag values                                       *)

\* UTF-16 code unit of the characters that occur in the modelled tag values
Code(c) ==
  CASE c = " " -> 32 [] c = "'" -> 39 [] c = "." -> 46
    [] c = "0" -> 48 [] c = "1" -> 49 [] c = "2" -> 50 [] c = "3" -> 51
    [] c = "4" -> 52 [] c = "5" -> 53 [] c = "6" -> 54 [] c = "7" -> 55
    [] c = "8" -> 56 [] c = "9" -> 57 [] c = "m" -> 109 [] c = "x" -> 120

IsDigit(c) == Code(c) >= 48 /\ Code(c) <= 57

\* JavaScript's a < b for two strings: lexicographic on code units
RECURSIVE StrLess(_, _)
StrLess(a, b) ==
  IF b = <<>> THEN FALSE
  ELSE IF a = <<>> THEN TRUE
  ELSE IF Code(Head(a)) # Code(Head(b)) THEN Code(Head(a)) < Code(Head(b))
  ELSE StrLess(Tail(a), Tail(b))

\* JavaScript's a >= b for two strings
StrGE(a, b) == ~StrLess(a, b)

\* String.prototype.indexOf(c): zero-based, -1 if absent
IndexOf(s, c) ==
  IF \E i \in DOMAIN s : s[i] = c
  THEN SetMin({i \in DOMAIN s : s[i] = c}) - 1
  ELSE -1

\* value of the longest prefix of digits of s, and its length
RECURSIVE DigitsValue(_, _)
DigitsValue(s, acc) ==
  IF s = <<>> \/ ~IsDigit(Head(s)) THEN acc
  ELSE DigitsValue(Tail(s), 10 * acc + (Code(Head(s)) - 48))

RECURSIVE DigitsLen(_)
DigitsLen(s) ==
  IF s = <<>> \/ ~IsDigit(Head(s)) THEN 0 ELSE 1 + DigitsLen(Tail(s))

\* JavaScript numbers that may be NaN or null: [k, v] with v in thousandths
Num(v) == [k |-> "num", v |-> v]
NaN == [k |-> "NaN", v |-> 0]
NullNum == [k |-> "null", v |-> 0]
IsNum(n) == n.k = "num"

\* parseFloat(s) in thousandths, for unsigned decimal prefixes with at most
\* three decimals; NaN if s does not start with a number
parseFloat(s) ==
  LET n == DigitsLen(s)
      rest == SubSeq(s, n + 1, Len(s))
      hasFrac == rest # <<>> /\ Head(rest) = "." /\ DigitsLen(Tail(rest)) > 0
      fl == IF hasFrac THEN Min(3, DigitsLen(Tail(rest))) ELSE 0
      frac == IF hasFrac THEN DigitsValue(SubSeq(Tail(rest), 1, fl), 0) * 10 ^ (3 - fl) ELSE 0
  IN  IF n = 0 /\ ~hasFrac THEN NaN
      ELSE Num(1000 * DigitsValue(s, 0) + frac)

\* height in thousandths of a metre, or NaN (FEET_TO_METER = 0.3048)
height2meters(height) ==
  LET v == parseFloat(height)
  IN  IF IndexOf(height, "'") > 0
      THEN (IF IsNum(v) THEN Num((v.v * 3048) \div 10000) ELSE NaN)
      ELSE v

-----------------------------------------------------------------------------
(* Features.  A feature is [id, type, properties, coordinates]: type is    *)
(* geometry.type, coordinates is geometry.coordinates (a sequence of rings *)
(* of <<lon, lat>>), properties maps the tag names present to their        *)
(* values.  Numeric tags (height, min_height, roof:height,                 *)
(* building:levels, building:min_level) carry character tuples, the other  *)
(* tags carry plain strings.                                               *)

Has(feature, key) == key \in DOMAIN feature.properties

\* the initial value 0 of result in findBaseBuilding; feature ids are non-empty strings
NoId == ""

\* parseInt(s) * LEVEL_HEIGHT_M in thousandths, or NaN
levels2meters(s) ==
  IF DigitsLen(s) = 0 THEN NaN ELSE Num(1000 * DigitsValue(s, 0) * LEVEL_HEIGHT_M)

\* the empty object {}
EmptyMap == [x \in {} |-> 0]

\* BUILDING_TO_METER, in metres; 0 stands for "not a key of the table"
BUILDING_TO_METER(v) ==
  IF v \in {"church", "water_tower"} THEN 20
  ELSE IF v \in {"bungalow", "cabin", "ger", "houseboat", "static_caravan", "kiosk",
                 "chapel", "shrine", "bakehouse", "toilets", "stable", "boathouse",
                 "hut", "shed", "carport", "garage", "garages", "beach_hut",
                 "container", "guardhouse"} THEN LEVEL_HEIGHT_M
  ELSE 0

\* feature2height consulting building:levels before height
feature2height_levelsFirst(feature) ==
  IF Has(feature, "building:levels")
  THEN levels2meters(feature.properties["building:levels"])
  ELSE IF Has(feature, "height") THEN height2meters(feature.properties["height"])
  ELSE NullNum

\* height in thousandths of a metre, NaN, or null
feature2height(feature) ==
  LET p == feature.properties
  IN  IF Has(feature, "height") THEN height2meters(p["height"])
      ELSE IF Has(feature, "building:levels")
        THEN levels2meters(p["building:levels"])
      ELSE IF Has(feature, "roof:height") THEN height2meters(p["roof:height"])
      ELSE IF Has(feature, "building") /\ BUILDING_TO_METER(p["building"]) # 0
        THEN Num(1000 * BUILDING_TO_METER(p["building"]))
      ELSE IF Has(feature, "man_made") /\ BUILDING_TO_METER(p["man_made"]) # 0
        THEN Num(1000 * BUILDING_TO_METER(p["man_made"]))
      ELSE NullNum

\* minimum height in thousandths of a metre, or NaN
feature2minHeight(feature) ==
  LET p == feature.properties
  IN  IF Has(feature, "min_height") THEN height2meters(p["min_height"])
      ELSE IF Has(feature, "building:min_level")
        THEN levels2meters(p["building:min_level"])
      ELSE Num(0)

hasShape(feature, shape) ==
  \/ Has(feature, "building:shape") /\ feature.properties["building:shape"] = shape
  \/ Has(feature, "roof:shape") /\ feature.properties["roof:shape"] = shape

\* isRoof that recognises no part as a roof
isRoof_never(part) == FALSE

isRoof(part) ==
  Has(part, "building:part") /\ part.properties["building:part"] = "roof"

\* id2feature maps a registered id to [properties, tmp_bbox]
RECURSIVE findBaseLoop(_, _, _, _)
findBaseLoop(partBox, buildingIds, id2feature, result) ==
  IF buildingIds = <<>> THEN result
  ELSE LET buildingId == Head(buildingIds)
           next ==
             IF containsBox(id2feature[buildingId].tmp_bbox, partBox)
             THEN IF result # NoId
                  THEN (IF containsBox(id2feature[result].tmp_bbox,
                                       id2feature[buildingId].tmp_bbox)
                        THEN buildingId ELSE result)
                  ELSE buildingId
             ELSE result
       IN  findBaseLoop(partBox, Tail(buildingIds), id2feature, next)

findBaseBuilding(part, buildingIds, id2feature) ==
  findBaseLoop(part.tmp_bbox, buildingIds, id2feature, NoId)

\* element-wise Set.add on a set kept in insertion order
SeqAdd(s, e) == IF \E i \in DOMAIN s : s[i] = e THEN s ELSE Append(s, e)

\* !featuresLoaded[feature.id] of line 1002, failing: every delivery counts as new
isNewFeature_always(feature, loaded) == TRUE

\* !featuresLoaded[feature.id] of line 1002
isNewFeature(feature, loaded) == feature.id \notin loaded

\* the body of the first loop of filterBuildingParts (lines 997-1022) for one
\* feature: a new building or part is registered; if its coordinates are
\* empty, paths[0].length (line 1005) throws a TypeError after the id was put
\* into featuresLoaded (line 1003)
registerFeature(feature, st, lat, lon) ==
  IF /\ isNewFeature(feature, st.featuresLoaded)
     /\ feature.type # "LineString" /\ feature.type # "Point"
     /\ (Has(feature, "building") \/ Has(feature, "building:part"))
  THEN IF feature.coordinates = <<>>
       THEN [st EXCEPT !.featuresLoaded = @ \cup {feature.id}, !.threw = TRUE]
       ELSE [featuresLoaded |-> st.featuresLoaded \cup {feature.id},
             id2feature |->
               (feature.id :>
                  [properties |-> feature.properties,
                   tmp_bbox |-> Box2FromPoints(
                     geojsonCoords2plane(feature.coordinates[1], lat, lon))])
               @@ st.id2feature,
             buildingIds |-> IF Has(feature, "building")
                             THEN SeqAdd(st.buildingIds, feature.id)
                             ELSE st.buildingIds,
             partIds |-> IF Has(feature, "building")
                         THEN st.partIds
                         ELSE SeqAdd(st.partIds, feature.id),
             threw |-> FALSE]
  ELSE st

\* first loop of filterBuildingParts (lines 996-1023): register the new
\* buildings and parts of the batch, up to a feature that throws
RECURSIVE registerLoop(_, _, _, _)
registerLoop(features, st, lat, lon) ==
  IF features = <<>> \/ st.threw THEN st
  ELSE registerLoop(Tail(features), registerFeature(Head(features), st, lat, lon),
                    lat, lon)

\* second loop (lines 1033-1045): the base building of every non-roof part;
\* the result maps each base building to the sequence of its parts
RECURSIVE partLoop(_, _, _)
partLoop(partIds, st, acc) ==
  IF partIds = <<>> THEN acc
  ELSE LET partId == Head(partIds)
           part == st.id2feature[partId]
           buildingId == findBaseBuilding(part, st.buildingIds, st.id2feature)
           next ==
             IF isRoof(part) \/ buildingId = NoId THEN acc
             ELSE [baseBuildingIds |-> SeqAdd(acc.baseBuildingIds, buildingId),
                   baseBuildings2parts |->
                     (buildingId :>
                        SeqAdd(IF buildingId \in DOMAIN acc.baseBuildings2parts
                               THEN acc.baseBuildings2parts[buildingId] ELSE <<>>,
                               partId))
                     @@ acc.baseBuildings2parts]
       IN  partLoop(Tail(partIds), st, next)

\* the test of lines 1056-1057; both tag values are strings
partOnTop(part, building) ==
  /\ Has(part, "min_height")
  /\ Has(building, "height")
  /\ StrGE(part.properties["min_height"], building.properties["height"])

\* the third loop with a flag that every part overwrites: the last part decides
skippedBuildingIds_lastWins(st, bp) ==
  {buildingId \in DOMAIN bp.baseBuildings2parts :
     /\ Len(bp.baseBuildings2parts[buildingId]) # 1
     /\ ~partOnTop(st.id2feature[bp.baseBuildings2parts[buildingId][
                     Len(bp.baseBuildings2parts[buildingId])]],
                   st.id2feature[buildingId])}

\* third loop (lines 1048-1065): the buildings replaced by their parts
skippedBuildingIds(st, bp) ==
  {buildingId \in DOMAIN bp.baseBuildings2parts :
     /\ Len(bp.baseBuildings2parts[buildingId]) # 1
     /\ \E i \in DOMAIN bp.baseBuildings2parts[buildingId] :
          ~partOnTop(st.id2feature[bp.baseBuildings2parts[buildingId][i]],
                     st.id2feature[buildingId])}

\* lines 1067-1077: the values of a finished call; result is the returned set
\* of ids to keep (every registered id but the skipped buildings); a call
\* that threw returns nothing
filterValues(st, bp, skipped) ==
  [featuresLoaded |-> st.featuresLoaded,
   buildingIds |-> st.buildingIds,
   partIds |-> st.partIds,
   id2feature |-> st.id2feature,
   baseBuildings2parts |-> bp.baseBuildings2parts,
   skippedBuildingIds |-> skipped,
   threw |-> st.threw,
   result |-> IF st.threw THEN {} ELSE DOMAIN st.id2feature \ skipped]

\* lines 1048-1077 after the second loop
filterSkipped(st, bp) == filterValues(st, bp, skippedBuildingIds(st, bp))

\* lines 1026-1077 after the first loop
filterParts(st) ==
  filterSkipped(st, partLoop(st.partIds, st,
                             [baseBuildingIds |-> <<>>, baseBuildings2parts |-> EmptyMap]))

\* All intermediate values of filterBuildingParts(features, featuresLoaded, lat, lon)
filterRun(features, loaded, lat, lon) ==
  filterParts(registerLoop(features,
                           [featuresLoaded |-> loaded, id2feature |-> EmptyMap,
                            buildingIds |-> <<>>, partIds |-> <<>>, threw |-> FALSE],
                           lat, lon))

\* the returned set of ids to keep, and featuresLoaded as the call leaves it
filterBuildingParts(features, loaded, lat, lon) ==
  filterRun(features, loaded, lat, lon)

-----------------------------------------------------------------------------
(* Geometry                                                                *)

\* THREE.Shape.getLength() of a closed outline with axis-parallel edges, in length units
RECURSIVE PathLength(_)
PathLength(pts) ==
  IF Len(pts) < 2 THEN 0
  ELSE LET dx == pts[2].x - pts[1].x
           dy == pts[2].y - pts[1].y
       IN  (IF dx >= 0 THEN dx ELSE -dx) + (IF dy >= 0 THEN dy ELSE -dy)
           + PathLength(Tail(pts))

\* a fifth of one length unit (EQUATOR_M / 5760 = 6957.5 m) in thousandths of a metre
FifthUnit == 1391494

\* createGeometry: [kind, outline, holes, depth, base]; depth and base in
\* thousandths of a metre
createGeometry(xyCoords, xyHoles, height, minHeight) ==
  LET perimeter == PathLength(xyCoords)
      h == IF height = NullNum
           THEN (IF perimeter >= 1 THEN Num(1000 * DEFAULT_BUILDING_HEIGHT_M)
                 ELSE Num(Min(1000 * DEFAULT_BUILDING_HEIGHT_M, perimeter * FifthUnit)))
           ELSE height
  IN  [kind |-> "extrude", outline |-> xyCoords, holes |-> xyHoles,
       depth |-> IF IsNum(h) /\ IsNum(minHeight) THEN Num(h.v - minHeight.v) ELSE NaN,
       base |-> minHeight]

\* createDomeGeometry: a half sphere scaled by height - minHeight; null - n is -n
createDomeGeometry(xyCoords, height, minHeight) ==
  LET h == IF height = NullNum THEN Num(0) ELSE height
  IN  [kind |-> "dome", outline |-> xyCoords, holes |-> <<>>,
       depth |-> IF IsNum(h) /\ IsNum(minHeight) THEN Num(h.v - minHeight.v) ELSE NaN,
       base |-> minHeight]

\* the null that feature2geometry returns for a skipped feature
NullGeometry == [kind |-> "null"]

\* the geometry of a feature, or null
feature2geometry(feature, baseLat, baseLon) ==
  LET paths == feature.coordinates
      xyOutline == geojsonCoords2plane(paths[1], baseLat, baseLon)
      xyHoles == [i \in 1..(Len(paths) - 1) |->
                    geojsonCoords2plane(paths[i + 1], baseLat, baseLon)]
      height_m == feature2height(feature)
      minHeight_m == feature2minHeight(feature)
  IN  IF height_m = Num(0) THEN NullGeometry
      ELSE IF hasShape(feature, "dome")
        THEN createDomeGeometry(xyOutline, height_m, minHeight_m)
      ELSE createGeometry(xyOutline, xyHoles, height_m, minHeight_m)

\* pushGeometry that pushes the null of a skipped feature as well
pushGeometry_always(id, geometry) == <<[id |-> id, geometry |-> geometry]>>

\* lines 1102-1125: the geometry pushed for a feature, if it is not null
pushGeometry(id, geometry) ==
  IF geometry.kind = "null" THEN <<>> ELSE <<[id |-> id, geometry |-> geometry]>>

\* the body of the loop of addBuildings for one feature (lines 1097-1126)
featureGeometry(feature, featureIds, lat, lon) ==
  IF feature.id \notin featureIds THEN <<>>
  ELSE pushGeometry(feature.id, feature2geometry(feature, lat, lon))

\* the geometries addBuildings pushes for the features of the batch, in order
RECURSIVE geometriesOf(_, _, _, _)
geometriesOf(features, featureIds, lat, lon) ==
  IF features = <<>> THEN <<>>
  ELSE featureGeometry(Head(features), featureIds, lat, lon)
       \o geometriesOf(Tail(features), featureIds, lat, lon)

-----------------------------------------------------------------------------
(* The tile loader                                                         *)

\* the tile key of line 1170
tileKey(x, y, zoom) == ShiftLeft32(y, zoom) + x

\* lines 1153-1164: the bounds of the two loops for a viewpoint pos = <<x, z>>;
\* tileX, tileY and radius are the rationals tileXn / den, tileYn / den, rn / den
tileRange(pos, d, tb, ts) ==
  LET den == FP * ts
      tileXn == tb[1] * ts + FP * pos[1]
      tileYn == tb[2] * ts + FP * pos[2]
      rn == FP * d.radius_m
      nTiles == 2 ^ d.zoom
  IN  [rawStartX |-> Floor(tileXn - rn, den),
       rawEndX |-> Ceil(tileXn + rn, den),
       startX |-> JsMod(Floor(tileXn - rn, den) + nTiles, nTiles),
       startY |-> Max(0, Floor(tileYn - rn, den)),
       endX |-> JsMod(Ceil(tileXn + rn, den) + nTiles, nTiles),
       endY |-> Min(nTiles, Ceil(tileYn + rn, den))]

\* the tiles <<x, y>> the two loops of lines 1168-1169 visit, in order
scanOrder(r) ==
  LET w == Max(0, r.endX - r.startX)
      h == Max(0, r.endY - r.startY)
  IN  [i \in 1..(w * h) |-> <<r.startX + ((i - 1) % w), r.startY + ((i - 1) \div w)>>]

\* lines 1176-1179 with the bbox of the first missing tile kept
bboxUnion_first(a, b) == a

\* lines 1176-1179
bboxUnion(a, b) ==
  <<Min(a[1], b[1]), Min(a[2], b[2]), Max(a[3], b[3]), Max(a[4], b[4])>>

\* line 1181 left out: the tile is not marked
markTile_forgotten(loaded, xy) == loaded

\* line 1181
markTile(loaded, xy) == loaded \cup {xy}

\* lines 1167-1184: st is [loaded, bboxSWNE, marked]; marked lists the tiles
\* this call added to tilesLoaded
RECURSIVE scanLoop(_, _, _)
scanLoop(tiles, zoom, st) ==
  IF tiles = <<>> THEN st
  ELSE LET x == Head(tiles)[1]
           y == Head(tiles)[2]
           xy == tileKey(x, y, zoom)
           bbox == tile2bbox(x, y, zoom)
           next ==
             IF xy \notin st.loaded
             THEN [loaded |-> markTile(st.loaded, xy),
                   bboxSWNE |-> IF Len(st.bboxSWNE) = 0 THEN bbox
                                ELSE bboxUnion(st.bboxSWNE, bbox),
                   marked |-> Append(st.marked, Head(tiles))]
             ELSE st
       IN  scanLoop(Tail(tiles), zoom, next)

\* loadTilesAround without the test of line 1150
loadTilesAround_unguarded(pos, d, tb, ts, loaded) ==
  scanLoop(scanOrder(tileRange(pos, d, tb, ts)), d.zoom,
           [loaded |-> loaded, bboxSWNE |-> <<>>, marked |-> <<>>])

\* loadTilesAround(pos) up to the request: tilesLoaded afterwards, the bbox
\* to request (empty if none) and the tiles newly marked
loadTilesAround(pos, d, tb, ts, loaded) ==
  IF d.radius_m <= 0
  THEN [loaded |-> loaded, bboxSWNE |-> <<>>, marked |-> <<>>]
  ELSE scanLoop(scanOrder(tileRange(pos, d, tb, ts)), d.zoom,
                [loaded |-> loaded, bboxSWNE |-> <<>>, marked |-> <<>>])

\* lines 1186-1192: the pending promise of loadOSMbuildingsBbox(bboxSWNE), if any
\* history kept with it: the tiles marked for it, the number of the update()
\* before it, the origin at that time and, once resolved, the features delivered
issueFetch(fs, scan, ep, d) ==
  IF Len(scan.bboxSWNE) > 0
  THEN Append(fs, [bbox |-> scan.bboxSWNE,
                   tiles |-> {scan.marked[i] : i \in DOMAIN scan.marked},
                   epoch |-> ep,
                   origin |-> <<d.lat, d.lon>>,
                   state |-> "pending",
                   response |-> <<>>])
  ELSE fs

\* features2center: <<lat, lon>>, the mean of the first position of each outline
RECURSIVE SumFirst(_, _)
SumFirst(features, k) ==
  IF features = <<>> THEN 0
  ELSE (IF Head(features).type \in {"Polygon"}
        THEN Head(features).coordinates[1][1][k] ELSE 0)
       + SumFirst(Tail(features), k)

features2center(features) ==
  LET count == Cardinality({i \in DOMAIN features : features[i].type \in {"Polygon"}})
  IN  <<SumFirst(features, 2) \div count, SumFirst(features, 1) \div count>>

\* lines 1096-1141: f is the value of filterBuildingParts; the entity with the
\* merged geometries is appended to the children of this.el, unless
\* filterBuildingParts threw and addBuildings ended at line 1087
appendEntity(features, f, sc, lat, lon) ==
  [featuresLoaded |-> f.featuresLoaded,
   scene |-> IF f.threw THEN sc
             ELSE Append(sc, geometriesOf(features, f.result, lat, lon))]

\* addBuildings projecting with the origin of the attribute defaults instead of this.data
addBuildings_defaultOrigin(features, loaded, sc, d) ==
  appendEntity(features, filterBuildingParts(features, loaded, 0, 0), sc, 0, 0)

\* addBuildings(geojson): featuresLoaded and the children of this.el afterwards
addBuildings(features, loaded, sc, d) ==
  appendEntity(features, filterBuildingParts(features, loaded, d.lat, d.lon),
               sc, d.lat, d.lon)

-----------------------------------------------------------------------------
(* Inputs of the model                                                     *)

Ring(w, s, e, n, start) ==
  LET c == <<<<w, s>>, <<e, s>>, <<e, n>>, <<w, n>>>>
  IN  [i \in 1..5 |-> c[((start + i - 2) % 4) + 1]]

Polygon(id, props, ring) ==
  [id |-> id, type |-> "Polygon", properties |-> props, coordinates |-> <<ring>>]

b1 == Polygon("way/1", [building |-> "yes", height |-> <<"1", "0">>], Ring(8, 58, 14, 62, 4))
p1 == Polygon("way/2", ("building:part" :> "yes"), Ring(9, 59, 11, 61, 1))
p2 == Polygon("way/3", ("building:part" :> "yes") @@ ("min_height" :> <<"3">>),
              Ring(11, 59, 13, 61, 2))
z1 == Polygon("way/4", [building |-> "yes", height |-> <<"0">>], Ring(20, 58, 21, 59, 1))
l1 == [id |-> "way/5", type |-> "LineString", properties |-> [building |-> "yes"],
       coordinates |-> <<<<8, 58>>, <<9, 59>>>>]

\* the geojson document behind the src asset
SrcDoc == <<b1, p1, p2>>

\* the feature collections Overpass answers with
Responses == {<<l1, p1, b1, p2, z1>>}

NoSrc == ""
NoTrack == ""

Config(lat, lon, src, radius_m, zoom, trackId) ==
  [lat |-> lat, lon |-> lon, src |-> src, radius_m |-> radius_m, zoom |-> zoom,
   trackId |-> trackId]

\* the attribute values the component is configured with; a radius_m of 360
\* length units spans one tile at the equator and two tiles at 60 degrees
Configs ==
  {Config(0, 0, "#json-world", 360, 4, "head"),
   Config(60, -180, NoSrc, 360, 4, "head"),
   Config(0, 0, "#json-world", 0, 4, NoTrack)}

\* the world positions <<x, z>> the tracked element visits
RigPositions == {<<0, 0>>, <<200, 0>>}

\* lastOp: the operation, the viewpoint it scanned around, the request it
\* issued or completed (0 if none), and whether it is a tick at the position
\* of the tick before it
LastOp(op, pos, fetch, repeat) ==
  [op |-> op, pos |-> pos, fetch |-> fetch, repeat |-> repeat]

-----------------------------------------------------------------------------
(* The component                                                           *)

\* the state after init(); the attributes are parsed into this.data before
Init ==
  /\ data \in Configs
  /\ tileSize_m = 0
  /\ tileBase = <<0, 0>>
  /\ tilesLoaded = {}
  /\ featuresLoaded = {}
  /\ scene = <<>>
  /\ trackElement = FALSE
  /\ fetches = <<>>
  /\ srcLoads = <<>>
  /\ epoch = 0
  /\ lastTickPos = [set |-> FALSE, pos |-> <<0, 0>>]
  /\ lastOp = LastOp("init", <<0, 0>>, 0, FALSE)
  /\ fIn = <<>>
  /\ fOut = <<>>

\* update(oldData): called once after init() with the initial attributes and
\* then whenever setAttribute changed them
update(newData) ==
  /\ epoch < MaxUpdates
  /\ IF epoch = 0 THEN newData = data ELSE newData # data
  /\ Len(fetches) < MaxFetches
  /\ data' = newData
  /\ tileSize_m' = lat2tileWidth_m(newData.lat, newData.zoom)
  /\ tileBase' = latlon2fractionalTileId(newData.lat, newData.lon, newData.zoom)
  /\ featuresLoaded' = {}
  /\ scene' = <<>>
  /\ srcLoads' = IF newData.src # NoSrc
                 THEN Append(srcLoads, [epoch |-> epoch + 1, state |-> "pending"])
                 ELSE srcLoads
  /\ LET scan == loadTilesAround(<<0, 0>>, newData, tileBase', tileSize_m', {})
     IN  /\ tilesLoaded' = scan.loaded
         /\ fetches' = issueFetch(fetches, scan, epoch + 1, newData)
         /\ lastOp' = LastOp("update", <<0, 0>>,
                             IF Len(scan.bboxSWNE) > 0 THEN Len(fetches) + 1 ELSE 0, FALSE)
  /\ trackElement' = (newData.trackId # NoTrack)
  /\ epoch' = epoch + 1
  /\ lastTickPos' = [set |-> FALSE, pos |-> <<0, 0>>]
  /\ UNCHANGED <<fIn, fOut>>

\* tick(), where getWorldPosition of the tracked element gives <<p[1], _, p[2]>>;
\* without a tracked element tick() does nothing (recorded as "tickIdle")
tick(p) ==
  /\ Len(fetches) < MaxFetches
  /\ IF trackElement
     THEN LET scan == loadTilesAround(p, data, tileBase, tileSize_m, tilesLoaded)
          IN  /\ tilesLoaded' = scan.loaded
              /\ fetches' = issueFetch(fetches, scan, epoch, data)
              /\ lastOp' = LastOp("tick", p,
                                  IF Len(scan.bboxSWNE) > 0 THEN Len(fetches) + 1 ELSE 0,
                                  lastTickPos.set /\ lastTickPos.pos = p)
              /\ lastTickPos' = [set |-> TRUE, pos |-> p]
     ELSE /\ lastOp' = LastOp("tickIdle", <<0, 0>>, 0, FALSE)
          /\ UNCHANGED <<tilesLoaded, fetches, lastTickPos>>
  /\ UNCHANGED <<data, tileSize_m, tileBase, featuresLoaded, scene, trackElement,
                 srcLoads, epoch, fIn, fOut>>

\* the request i got an ok response: the callback of line 1188 runs
\* osmtogeojson and addBuildings
fetchResolved(i, features) ==
  /\ i \in DOMAIN fetches
  /\ fetches[i].state = "pending"
  /\ LET r == addBuildings(features, featuresLoaded, scene, data)
     IN  /\ featuresLoaded' = r.featuresLoaded
         /\ scene' = r.scene
  /\ fetches' = [fetches EXCEPT ![i].state = "ok", ![i].response = features]
  /\ lastOp' = LastOp("fetchResolved", <<0, 0>>, i, FALSE)
  /\ UNCHANGED <<data, tileSize_m, tileBase, tilesLoaded, trackElement,
                 srcLoads, epoch, lastTickPos, fIn, fOut>>

\* a failure handler that releases the tiles of the request for a retry
fetchFailed_retry(i) ==
  /\ i \in DOMAIN fetches
  /\ fetches[i].state = "pending"
  /\ fetches' = [fetches EXCEPT ![i].state = "failed"]
  /\ tilesLoaded' = tilesLoaded \ {tileKey(t[1], t[2], data.zoom) : t \in fetches[i].tiles}
  /\ lastOp' = LastOp("fetchFailed", <<0, 0>>, i, FALSE)
  /\ UNCHANGED <<data, tileSize_m, tileBase, featuresLoaded, scene,
                 trackElement, srcLoads, epoch, lastTickPos, fIn, fOut>>

\* the request i failed: fetch rejected, or the response was not ok, so that
\* loadOSMbuildingsBbox returned undefined and osmtogeojson(undefined) threw
fetchFailed(i) ==
  /\ i \in DOMAIN fetches
  /\ fetches[i].state = "pending"
  /\ fetches' = [fetches EXCEPT ![i].state = "failed"]
  /\ lastOp' = LastOp("fetchFailed", <<0, 0>>, i, FALSE)
  /\ UNCHANGED <<data, tileSize_m, tileBase, tilesLoaded, featuresLoaded, scene,
                 trackElement, srcLoads, epoch, lastTickPos, fIn, fOut>>

\* onSrcLoaded(text) for the load i of the src asset
onSrcLoaded(i) ==
  /\ i \in DOMAIN srcLoads
  /\ srcLoads[i].state = "pending"
  /\ LET center == features2center(SrcDoc)
         d == IF data.lat = 0 /\ data.lon = 0
              THEN [data EXCEPT !.lat = center[1], !.lon = center[2]]
              ELSE data
         r == addBuildings(SrcDoc, featuresLoaded, scene, d)
     IN  /\ data' = d
         /\ featuresLoaded' = r.featuresLoaded
         /\ scene' = r.scene
  /\ srcLoads' = [srcLoads EXCEPT ![i].state = "done"]
  /\ lastOp' = LastOp("onSrcLoaded", <<0, 0>>, i, FALSE)
  /\ UNCHANGED <<tileSize_m, tileBase, tilesLoaded, trackElement, fetches,
                 epoch, lastTickPos, fIn, fOut>>

Next ==
  \/ \E newData \in Configs : update(newData)
  \/ \E p \in RigPositions : tick(p)
  \/ \E i \in 1..MaxFetches, features \in Responses : fetchResolved(i, features)
  \/ \E i \in 1..MaxFetches : fetchFailed(i)
  \/ \E i \in 1..MaxUpdates : onSrcLoaded(i)

Spec == Init /\ [][Next]_vars

-----------------------------------------------------------------------------
(* The component under the idle configurations: no radius, or no tracked   *)
(* element                                                                 *)

IdleConfigs ==
  {Config(0, 0, "#json-world", 0, 4, "head"),
   Config(60, 0, NoSrc, 0, 4, "head"),
   Config(60, 0, NoSrc, -360, 4, "head"),
   Config(0, 0, NoSrc, 360, 4, NoTrack)}

InitIdle ==
  /\ data \in IdleConfigs
  /\ tileSize_m = 0
  /\ tileBase = <<0, 0>>
  /\ tilesLoaded = {}
  /\ featuresLoaded = {}
  /\ scene = <<>>
  /\ trackElement = FALSE
  /\ fetches = <<>>
  /\ srcLoads = <<>>
  /\ epoch = 0
  /\ lastTickPos = [set |-> FALSE, pos |-> <<0, 0>>]
  /\ lastOp = LastOp("init", <<0, 0>>, 0, FALSE)
  /\ fIn = <<>>
  /\ fOut = <<>>

NextIdle ==
  \/ \E newData \in IdleConfigs : update(newData)
  \/ \E p \in RigPositions : tick(p)
  \/ \E i \in 1..MaxFetches, features \in Responses : fetchResolved(i, features)
  \/ \E i \in 1..MaxFetches : fetchFailed(i)
  \/ \E i \in 1..MaxUpdates : onSrcLoaded(i)

SpecIdle == InitIdle /\ [][NextIdle]_vars

-----------------------------------------------------------------------------
(* filterBuildingParts as a pure function: the batches of the harness have *)
(* up to two buildings, Big and Mid (Mid inside Big), and up to MaxParts   *)
(* parts, each inside Mid, inside Big only, or outside both.               *)

PartIds == <<"way/21", "way/22", "way/23", "way/24", "way/25">>

HeightOptions == <<<<"1", "0">>>>
MinHeightOptions == <<<<"9">>, <<"1", "2">>>>
PartRings == <<Ring(2, 2, 4, 4, 1), Ring(7, 7, 9, 9, 1), Ring(20, 20, 22, 22, 1)>>
NPartOptions == 2 * (Len(MinHeightOptions) + 1) * Len(PartRings)

\* option o of a building: 0 absent, 1 without height, 2.. with a height
BuildingOption(id, ring, o) ==
  IF o = 0 THEN <<>>
  ELSE IF o = 1 THEN <<Polygon(id, [building |-> "yes"], ring)>>
  ELSE <<Polygon(id, [building |-> "yes", height |-> HeightOptions[o - 1]], ring)>>

\* option o of a part: 0 absent, else kind, min_height and ring by the digits of o - 1
PartOption(id, o) ==
  IF o = 0 THEN <<>>
  ELSE LET k == (o - 1) \div ((Len(MinHeightOptions) + 1) * Len(PartRings))
           m == ((o - 1) \div Len(PartRings)) % (Len(MinHeightOptions) + 1)
           r == ((o - 1) % Len(PartRings)) + 1
           kind == ("building:part" :> (IF k = 0 THEN "yes" ELSE "roof"))
           props == IF m = 0 THEN kind
                    ELSE kind @@ ("min_height" :> MinHeightOptions[m])
       IN  <<Polygon(id, props, PartRings[r])>>

RECURSIVE PartsOf(_, _)
PartsOf(t, i) ==
  IF i > MaxParts THEN <<>> ELSE PartOption(PartIds[i], t[i]) \o PartsOf(t, i + 1)

Reverse(s) == [i \in 1..Len(s) |-> s[Len(s) + 1 - i]]

FilterBatches ==
  {(IF bigFirst
    THEN BuildingOption("way/10", Ring(0, 0, 10, 10, 1), bo)
         \o BuildingOption("way/11", Ring(1, 1, 6, 6, 1), mo)
    ELSE BuildingOption("way/11", Ring(1, 1, 6, 6, 1), mo)
         \o BuildingOption("way/10", Ring(0, 0, 10, 10, 1), bo))
   \o (IF ascending THEN PartsOf(t, 1) ELSE Reverse(PartsOf(t, 1))) :
     bo \in 0..(Len(HeightOptions) + 1), mo \in 0..(Len(HeightOptions) + 1),
     bigFirst \in BOOLEAN, ascending \in BOOLEAN,
     t \in {u \in [1..MaxParts -> 0..NPartOptions] :
              \A i \in 1..(MaxParts - 1) : u[i] <= u[i + 1]}}

InitFilter ==
  /\ data = Config(0, 0, NoSrc, 0, 4, NoTrack)
  /\ tileSize_m = 0
  /\ tileBase = <<0, 0>>
  /\ tilesLoaded = {}
  /\ featuresLoaded = {}
  /\ scene = <<>>
  /\ trackElement = FALSE
  /\ fetches = <<>>
  /\ srcLoads = <<>>
  /\ epoch = 0
  /\ lastTickPos = [set |-> FALSE, pos |-> <<0, 0>>]
  /\ lastOp = LastOp("init", <<0, 0>>, 0, FALSE)
  /\ fIn \in FilterBatches
  /\ fOut = <<>>

\* one call filterBuildingParts(fIn, {}, lat, lon)
runFilter ==
  /\ fOut = <<>>
  /\ fOut' = <<filterRun(fIn, {}, data.lat, data.lon)>>
  /\ lastOp' = LastOp("runFilter", <<0, 0>>, 0, FALSE)
  /\ UNCHANGED <<data, tileSize_m, tileBase, tilesLoaded, featuresLoaded, scene,
                 trackElement, fetches, srcLoads, epoch, lastTickPos, fIn>>

NextFilter == runFilter

SpecFilter == InitFilter /\ [][NextFilter]_vars

-----------------------------------------------------------------------------
(* The converter of one feature as pure functions: feature2height,         *)
(* feature2minHeight and feature2geometry applied to a feature drawn from  *)
(* the combinations of the height-related tags.                            *)

\* tag values; "x" does not parse as a number, "10'" is in feet
HeightTags == <<<<"1", "0">>, <<"0">>, <<"x">>, <<"1", "0", "'">>>>
LevelTags == <<<<"3">>, <<"5">>, <<"x">>>>
RoofHeightTags == <<<<"2">>>>
MinHeightTags == <<<<"3">>, <<"x">>>>
MinLevelTags == <<<<"1">>>>
KindTags == <<[building |-> "yes"], [building |-> "church"],
              ("building:part" :> "yes"), [man_made |-> "water_tower"]>>
ShapeTags == <<"dome">>

\* outlines: a block of 6 x 4 degrees, and one collapsed to a point (perimeter 0)
FeatureRings == <<Ring(8, 58, 14, 62, 1), Ring(8, 58, 8, 58, 1)>>

\* the tag key with the option i of opts, or no tag for i = 0
TagOption(key, opts, i) == IF i = 0 THEN EmptyMap ELSE (key :> opts[i])

FeatureInputs ==
  {Polygon("way/30",
           KindTags[k] @@ TagOption("height", HeightTags, h)
             @@ TagOption("building:levels", LevelTags, l)
             @@ TagOption("roof:height", RoofHeightTags, rh)
             @@ TagOption("min_height", MinHeightTags, mh)
             @@ TagOption("building:min_level", MinLevelTags, ml)
             @@ TagOption("roof:shape", ShapeTags, sh),
           FeatureRings[r]) :
     k \in DOMAIN KindTags, h \in 0..Len(HeightTags), l \in 0..Len(LevelTags),
     rh \in 0..Len(RoofHeightTags), mh \in 0..Len(MinHeightTags),
     ml \in 0..Len(MinLevelTags), sh \in 0..Len(ShapeTags),
     r \in DOMAIN FeatureRings}

InitFeature ==
  /\ data = Config(0, 0, NoSrc, 0, 4, NoTrack)
  /\ tileSize_m = 0
  /\ tileBase = <<0, 0>>
  /\ tilesLoaded = {}
  /\ featuresLoaded = {}
  /\ scene = <<>>
  /\ trackElement = FALSE
  /\ fetches = <<>>
  /\ srcLoads = <<>>
  /\ epoch = 0
  /\ lastTickPos = [set |-> FALSE, pos |-> <<0, 0>>]
  /\ lastOp = LastOp("init", <<0, 0>>, 0, FALSE)
  /\ \E f \in FeatureInputs : fIn = <<f>>
  /\ fOut = <<>>

\* feature2height, feature2minHeight and feature2geometry of the feature fIn[1]
convertFeature ==
  /\ fOut = <<>>
  /\ fOut' = <<[height |-> feature2height(fIn[1]),
                minHeight |-> feature2minHeight(fIn[1]),
                geometry |-> feature2geometry(fIn[1], data.lat, data.lon)]>>
  /\ lastOp' = LastOp("convertFeature", <<0, 0>>, 0, FALSE)
  /\ UNCHANGED <<data, tileSize_m, tileBase, tilesLoaded, featuresLoaded, scene,
                 trackElement, fetches, srcLoads, epoch, lastTickPos, fIn>>

NextFeature == convertFeature

SpecFeature == InitFeature /\ [][NextFeature]_vars

-----------------------------------------------------------------------------
(* addBuildings on batches: the component with two requests pending, each  *)
(* answered with a batch of up to MaxBatch distinct features of a          *)
(* catalogue.  The request answered second delivers the batch of the first *)
(* again, or the batch FollowUp.                                           *)

cb == Polygon("way/40", [building |-> "yes"], Ring(0, 0, 10, 10, 1))
cp1 == Polygon("way/41", ("building:part" :> "yes"), Ring(2, 2, 4, 4, 1))
cp2 == Polygon("way/42", ("building:part" :> "yes"), Ring(5, 5, 7, 7, 1))
cr == Polygon("way/43", ("building:part" :> "roof"), Ring(2, 5, 4, 7, 1))
co == Polygon("way/44", ("building:part" :> "yes"), Ring(20, 20, 22, 22, 1))
cl == [id |-> "way/45", type |-> "LineString", properties |-> [building |-> "yes"],
       coordinates |-> <<<<0, 0>>, <<1, 1>>>>]
cn == [id |-> "node/46", type |-> "Point", properties |-> [building |-> "yes"],
       coordinates |-> <<3, 3, 0>>]
cu == Polygon("way/47", [amenity |-> "parking"], Ring(12, 12, 13, 13, 1))
cz == Polygon("way/48", [building |-> "yes", height |-> <<"0">>], Ring(30, 30, 31, 31, 1))
\* a building whose geometry has no coordinates
cm == [id |-> "way/49", type |-> "Polygon", properties |-> [building |-> "yes"],
       coordinates |-> <<>>]

Catalogue == <<cb, cp1, cp2, cr, co, cl, cn, cu, cz, cm>>

FollowUp == <<cb, cp1, cp2, co, cz>>

Batches ==
  {[k \in DOMAIN ix |-> Catalogue[ix[k]]] :
     ix \in {u \in UNION {[1..n -> DOMAIN Catalogue] : n \in 1..MaxBatch} :
               \A a, b \in DOMAIN u : a # b => u[a] # u[b]}}

\* the batches a request can be answered with
BatchChoices ==
  IF \A i \in DOMAIN fetches : fetches[i].state = "pending"
  THEN Batches
  ELSE {FollowUp}
       \cup {fetches[i].response : i \in {j \in DOMAIN fetches : fetches[j].state = "ok"}}

\* the state after update() at the origin (0, 0) and a tick at <<200, 0>>:
\* two requests are pending
InitBatch ==
  LET d == Config(0, 0, NoSrc, 360, 4, "head")
      ts == lat2tileWidth_m(d.lat, d.zoom)
      tb == latlon2fractionalTileId(d.lat, d.lon, d.zoom)
  IN  /\ data = d
      /\ tileSize_m = ts
      /\ tileBase = tb
      /\ tilesLoaded =
           loadTilesAround(<<200, 0>>, d, tb, ts,
                           loadTilesAround(<<0, 0>>, d, tb, ts, {}).loaded).loaded
      /\ featuresLoaded = {}
      /\ scene = <<>>
      /\ trackElement = TRUE
      /\ fetches =
           issueFetch(issueFetch(<<>>, loadTilesAround(<<0, 0>>, d, tb, ts, {}), 1, d),
                      loadTilesAround(<<200, 0>>, d, tb, ts,
                                      loadTilesAround(<<0, 0>>, d, tb, ts, {}).loaded),
                      1, d)
      /\ srcLoads = <<>>
      /\ epoch = 1
      /\ lastTickPos = [set |-> TRUE, pos |-> <<200, 0>>]
      /\ lastOp = LastOp("tick", <<200, 0>>, 2, FALSE)
      /\ fIn = <<>>
      /\ fOut = <<>>

NextBatch ==
  \E i \in 1..2, features \in BatchChoices : fetchResolved(i, features)

SpecBatch == InitBatch /\ [][NextBatch]_vars

-----------------------------------------------------------------------------
(* Properties of the loader                                                *)

KeysOf(tiles, zoom) == {tileKey(t[1], t[2], zoom) : t \in tiles}

\* the tiles of the covering rectangle of the last loadTilesAround call
LastScanned == 
  {scanOrder(tileRange(lastOp.pos, data, tileBase, tileSize_m))[i] :
     i \in DOMAIN scanOrder(tileRange(lastOp.pos, data, tileBase, tileSize_m))}

\* C1: between two resets every tile is marked by at most one loadTilesAround
\* call, and it is in tilesLoaded as soon as the request it caused exists: the
\* requests of one epoch have pairwise disjoint tile sets, and the tiles of
\* every request of the current epoch are marked, also while it is pending.
C1_OneFetchPerTile ==
  \A i \in DOMAIN fetches :
    /\ fetches[i].tiles # {}
    /\ fetches[i].epoch = epoch =>
         KeysOf(fetches[i].tiles, data.zoom) \subseteq tilesLoaded
    /\ \A j \in DOMAIN fetches :
         (i # j /\ fetches[i].epoch = fetches[j].epoch) =>
           fetches[i].tiles \cap fetches[j].tiles = {}

\* a tick re-scanned tiles whose request is still outstanding, and issued a
\* second request of the same epoch for other tiles
C1_Witness ==
  /\ lastOp.op = "tick"
  /\ lastOp.fetch # 0
  /\ \E i \in DOMAIN fetches :
       /\ i # lastOp.fetch
       /\ fetches[i].epoch = epoch
       /\ fetches[i].state = "pending"
       /\ fetches[i].tiles \cap LastScanned # {}

\* the places <<entity, index>> of the scene that hold a geometry of the feature id
Materialized(id) ==
  UNION {{<<i, k>> : k \in {n \in DOMAIN scene[i] : scene[i][n].id = id}} :
           i \in DOMAIN scene}

WorldIds == {b1.id, p1.id, p2.id, z1.id, l1.id}

\* C2: between two resets every feature id has at most one geometry in the
\* scene, whatever batches (Overpass responses, the src asset) delivered it.
C2_MaterializedOnce ==
  \A id \in WorldIds : Cardinality(Materialized(id)) <= 1

\* two resolved requests of the current epoch and the src asset all delivered
\* the building part way/2, which is in the scene
C2_Witness ==
  /\ Cardinality(Materialized(p1.id)) = 1
  /\ \E i, j \in DOMAIN fetches :
       /\ i # j
       /\ fetches[i].epoch = epoch /\ fetches[j].epoch = epoch
       /\ \E k \in DOMAIN fetches[i].response : fetches[i].response[k].id = p1.id
       /\ \E k \in DOMAIN fetches[j].response : fetches[j].response[k].id = p1.id
  /\ \E i \in DOMAIN srcLoads : srcLoads[i].epoch = epoch /\ srcLoads[i].state = "done"

\* what a reset of the component leaves for the attributes d
ColdStart(d, loaded, registered, sc, ts, tb) ==
  /\ loaded = loadTilesAround(<<0, 0>>, d, latlon2fractionalTileId(d.lat, d.lon, d.zoom),
                              lat2tileWidth_m(d.lat, d.zoom), {}).loaded
  /\ registered = {}
  /\ sc = <<>>
  /\ ts = lat2tileWidth_m(d.lat, d.zoom)
  /\ tb = latlon2fractionalTileId(d.lat, d.lon, d.zoom)

\* C3: whenever data.lat or data.lon changes, the component cold-starts:
\* tilesLoaded holds only the initial scan around the new origin,
\* featuresLoaded and the scene are empty, tileSize_m and tileBase are those
\* of the new origin.
C3_OriginChangeResets ==
  [][(data'.lat # data.lat \/ data'.lon # data.lon) =>
       ColdStart(data', tilesLoaded', featuresLoaded', scene', tileSize_m', tileBase')]_vars

IsBuildingArea(f) ==
  /\ f.type \notin {"LineString", "Point"}
  /\ ("building" \in DOMAIN f.properties \/ "building:part" \in DOMAIN f.properties)

\* C4: a request issued before an update() and resolved after it is applied
\* to the component as it is then: its new building and part ids enter
\* featuresLoaded, and one entity is added whose geometries are those of its
\* kept features with a height other than 0, each projected with the origin
\* data.lat, data.lon of the time of completion.
C4_StaleFetchApplied ==
  [][(lastOp'.op = "fetchResolved" /\ fetches[lastOp'.fetch].epoch < epoch) =>
       LET batch == fetches'[lastOp'.fetch].response
           new == {batch[k].id : k \in {n \in DOMAIN batch :
                      IsBuildingArea(batch[n]) /\ batch[n].id \notin featuresLoaded}}
           kept == filterBuildingParts(batch, featuresLoaded, data'.lat, data'.lon).result
           entity == scene'[Len(scene')]
       IN  /\ featuresLoaded' = featuresLoaded \cup new
           /\ Len(scene') = Len(scene) + 1
           /\ \A k \in DOMAIN scene : scene'[k] = scene[k]
           /\ \A k \in DOMAIN entity :
                \E n \in DOMAIN batch :
                  /\ batch[n].id = entity[k].id
                  /\ batch[n].id \in new
                  /\ entity[k].geometry.outline =
                       geojsonCoords2plane(batch[n].coordinates[1], data'.lat, data'.lon)
           /\ \A n \in DOMAIN batch :
                (batch[n].id \in kept /\ feature2height(batch[n]) # Num(0)) =>
                  \E k \in DOMAIN entity : entity[k].id = batch[n].id
    ]_vars

\* a request issued under another origin was resolved after the reset and
\* put geometries into the scene
C4_Witness ==
  /\ lastOp.op = "fetchResolved"
  /\ fetches[lastOp.fetch].epoch < epoch
  /\ fetches[lastOp.fetch].origin # <<data.lat, data.lon>>
  /\ scene[Len(scene)] # <<>>

\* C5: a failed request registers and materializes nothing and leaves
\* tilesLoaded alone; its tiles stay marked and no other request of the same
\* epoch is issued for any of them.
C5_FailedFetchNotRetried ==
  /\ [][lastOp'.op = "fetchFailed" =>
          /\ featuresLoaded' = featuresLoaded
          /\ scene' = scene
          /\ tilesLoaded' = tilesLoaded]_vars
  /\ [](\A i \in DOMAIN fetches :
          (fetches[i].state = "failed" /\ fetches[i].epoch = epoch) =>
            /\ KeysOf(fetches[i].tiles, data.zoom) \subseteq tilesLoaded
            /\ \A j \in DOMAIN fetches :
                 (j # i /\ fetches[j].epoch = epoch) =>
                   fetches[j].tiles \cap fetches[i].tiles = {})

\* after a request of the current epoch failed, a tick scanned its tiles
\* again, a later request was issued and resolved, and its buildings are in
\* the scene
C5_Witness ==
  /\ lastOp.op = "fetchResolved"
  /\ fetches[lastOp.fetch].epoch = epoch
  /\ scene # <<>> /\ scene[Len(scene)] # <<>>
  /\ \E i \in DOMAIN fetches :
       /\ i < lastOp.fetch
       /\ fetches[i].state = "failed"
       /\ fetches[i].epoch = epoch
  /\ lastTickPos.set

\* C6: a tick at the position of the tick before it (no update() between
\* them) marks no tile and issues no request.
C6_RepeatedTickIdle ==
  [][(lastOp'.op = "tick" /\ lastTickPos.set /\ lastTickPos.pos = lastOp'.pos) =>
       /\ tilesLoaded' = tilesLoaded
       /\ fetches' = fetches]_vars

\* a tick was repeated at the same position while a request for tiles of
\* its rectangle was still pending
C6_Witness ==
  /\ lastOp.op = "tick"
  /\ lastOp.repeat
  /\ \E i \in DOMAIN fetches :
       /\ fetches[i].state = "pending"
       /\ fetches[i].epoch = epoch
       /\ fetches[i].tiles \cap LastScanned # {}

\* the tile of a key, for keys of tiles 0 <= x, y < 2^zoom without overflow
KeyTile(xy, zoom) == <<xy % (2 ^ zoom), xy \div (2 ^ zoom)>>

\* the union of the bounding boxes of a non-empty set of tiles
UnionBBox(tiles, zoom) ==
  <<SetMin({tile2bbox(t[1], t[2], zoom)[1] : t \in tiles}),
    SetMin({tile2bbox(t[1], t[2], zoom)[2] : t \in tiles}),
    SetMax({tile2bbox(t[1], t[2], zoom)[3] : t \in tiles}),
    SetMax({tile2bbox(t[1], t[2], zoom)[4] : t \in tiles})>>

\* C7: a loadTilesAround call (in update() or tick()) issues one request if
\* it marked at least one tile and none otherwise, and the bbox of the
\* request is the union of the bounding boxes of the tiles it marked.
C7_OneFetchForUnion ==
  [][(lastOp'.op \in {"update", "tick"}) =>
       LET before == IF lastOp'.op = "update" THEN {} ELSE tilesLoaded
           newTiles == {KeyTile(xy, data'.zoom) : xy \in tilesLoaded' \ before}
       IN  /\ before \subseteq tilesLoaded'
           /\ IF newTiles = {}
              THEN fetches' = fetches
              ELSE /\ Len(fetches') = Len(fetches) + 1
                   /\ \A i \in DOMAIN fetches : fetches'[i] = fetches[i]
                   /\ fetches'[Len(fetches')].state = "pending"
                   /\ fetches'[Len(fetches')].bbox = UnionBBox(newTiles, data'.zoom)
    ]_vars

\* a tick marked several tiles of a rectangle that also holds tiles marked
\* before, and issued a request for them
C7_Witness ==
  /\ lastOp.op = "tick"
  /\ lastOp.fetch # 0
  /\ Cardinality(fetches[lastOp.fetch].tiles) >= 2
  /\ LastScanned \ fetches[lastOp.fetch].tiles # {}

\* C8: when the covering rectangle of the last loadTilesAround call crosses
\* the seam between x = 0 and x = 2^zoom - 1, its tiles on both sides of the
\* seam are marked.
C8_SeamTilesMarked ==
  LET r == tileRange(lastOp.pos, data, tileBase, tileSize_m)
      nTiles == 2 ^ data.zoom
  IN  (/\ lastOp.op \in {"update", "tick"}
       /\ data.radius_m > 0
       /\ r.rawStartX < 0 /\ r.rawEndX > 0
       /\ r.rawEndX - r.rawStartX < nTiles) =>
        \A y \in r.startY..(r.endY - 1) :
          /\ \A x \in 0..(r.rawEndX - 1) : tileKey(x, y, data.zoom) \in tilesLoaded
          /\ \A x \in (nTiles + r.rawStartX)..(nTiles - 1) :
               tileKey(x, y, data.zoom) \in tilesLoaded

-----------------------------------------------------------------------------
(* Properties of filterBuildingParts                                       *)

\* min_height of the part and height of the building as numbers of metres
NumericOnTop(part, building) ==
  /\ Has(part, "min_height")
  /\ Has(building, "height")
  /\ IsNum(height2meters(part.properties["min_height"]))
  /\ IsNum(height2meters(building.properties["height"]))
  /\ height2meters(part.properties["min_height"]).v
       >= height2meters(building.properties["height"]).v

\* C9: a building that is the base of two non-roof parts, neither of which
\* has min_height >= the height of the building, is not in the returned set,
\* and both parts are.
C9_PartSuppression ==
  fOut # <<>> =>
    LET r == fOut[1]
    IN  \A b \in DOMAIN r.baseBuildings2parts :
          LET parts == r.baseBuildings2parts[b]
          IN  (/\ Len(parts) = 2
               /\ \A i \in DOMAIN parts :
                    ~NumericOnTop(r.id2feature[parts[i]], r.id2feature[b])) =>
                /\ b \notin r.result
                /\ \A i \in DOMAIN parts : parts[i] \in r.result

TaggedRoof(f) ==
  "building:part" \in DOMAIN f.properties /\ f.properties["building:part"] = "roof"

\* the registered non-roof parts whose base building is b
NonRoofPartsOf(r, b) ==
  {p \in DOMAIN r.id2feature :
     /\ "building" \notin DOMAIN r.id2feature[p].properties
     /\ ~TaggedRoof(r.id2feature[p])
     /\ findBaseBuilding(r.id2feature[p], r.buildingIds, r.id2feature) = b}

\* the batch without its roof-tagged parts
WithoutRoofParts(features) ==
  SelectSeq(features, LAMBDA f : "building" \in DOMAIN f.properties \/ ~TaggedRoof(f))

\* C10: a building is suppressed only if at least two non-roof parts have it
\* as base building; all parts are kept; the roof-tagged parts of a batch do
\* not change which buildings are suppressed.
C10_SinglePartKeepsBuilding ==
  fOut # <<>> =>
    LET r == fOut[1]
    IN  /\ \A b \in DOMAIN r.id2feature :
             b \notin r.result => Cardinality(NonRoofPartsOf(r, b)) >= 2
        /\ \A p \in DOMAIN r.id2feature :
             "building" \notin DOMAIN r.id2feature[p].properties => p \in r.result
        /\ r.skippedBuildingIds =
             filterRun(WithoutRoofParts(fIn), {}, data.lat, data.lon).skippedBuildingIds

\* a building with exactly one non-roof part and a roof part inside it is
\* kept with both
C10_Witness ==
  /\ fOut # <<>>
  /\ \E b \in DOMAIN fOut[1].id2feature :
       /\ b \in fOut[1].result
       /\ "building" \in DOMAIN fOut[1].id2feature[b].properties
       /\ Cardinality(NonRoofPartsOf(fOut[1], b)) = 1
       /\ \E p \in DOMAIN fOut[1].id2feature :
            /\ TaggedRoof(fOut[1].id2feature[p])
            /\ "building" \notin DOMAIN fOut[1].id2feature[p].properties
            /\ containsBox(fOut[1].id2feature[b].tmp_bbox, fOut[1].id2feature[p].tmp_bbox)
            /\ p \in fOut[1].result

-----------------------------------------------------------------------------
(* Properties of the feature converter                                     *)

\* the number a tag value of the harness denotes, in thousandths (of a metre
\* for heights, of a level for level counts); "10'" is 10 ft = 3.048 m
TagMillis(v) ==
  CASE v = <<"1", "0">> -> 10000
    [] v = <<"0">> -> 0
    [] v = <<"1", "0", "'">> -> 3048
    [] v = <<"1">> -> 1000
    [] v = <<"2">> -> 2000
    [] v = <<"3">> -> 3000
    [] v = <<"5">> -> 5000

\* the tag key of f is present and its value is a number
Parses(f, key) == Has(f, key) /\ f.properties[key] # <<"x">>

\* C12: a feature with a height tag that is a number resolves to that height,
\* whatever other height-related tags it carries; a feature whose only
\* height-related tag is building:levels resolves to levels x 3 m.
C12_HeightTagFirst ==
  fOut # <<>> =>
    /\ Parses(fIn[1], "height") =>
         fOut[1].height = Num(TagMillis(fIn[1].properties["height"]))
    /\ (/\ ~Has(fIn[1], "height") /\ ~Has(fIn[1], "roof:height")
        /\ Parses(fIn[1], "building:levels")) =>
         fOut[1].height = Num(3 * TagMillis(fIn[1].properties["building:levels"]))

\* height 10 with building:levels 5 resolved to 10 m
C12_Witness ==
  /\ fOut # <<>>
  /\ Has(fIn[1], "height") /\ fIn[1].properties["height"] = <<"1", "0">>
  /\ Has(fIn[1], "building:levels") /\ fIn[1].properties["building:levels"] = <<"5">>
  /\ fOut[1].height = Num(10000)

\* C13: a feature without a height tag that carries both roof:height and
\* building:levels resolves to the roof:height value.
C13_RoofHeightBeforeLevels ==
  (/\ fOut # <<>>
   /\ ~Has(fIn[1], "height")
   /\ Parses(fIn[1], "roof:height")
   /\ Parses(fIn[1], "building:levels")) =>
    fOut[1].height = Num(TagMillis(fIn[1].properties["roof:height"]))

\* C14: a height-related tag whose value is not a number counts as absent:
\* the resolved height and minimum height are never NaN, an unparseable height
\* with building:levels 3 resolves to 9 m, and an unparseable height without
\* another fallback resolves to unknown.
C14_UnparseableAsAbsent ==
  fOut # <<>> =>
    /\ fOut[1].height # NaN
    /\ fOut[1].minHeight # NaN
    /\ (/\ Has(fIn[1], "height") /\ ~Parses(fIn[1], "height")
        /\ Parses(fIn[1], "building:levels")) =>
         fOut[1].height = Num(3 * TagMillis(fIn[1].properties["building:levels"]))
    /\ (/\ Has(fIn[1], "height") /\ ~Parses(fIn[1], "height")
        /\ ~Has(fIn[1], "building:levels") /\ ~Has(fIn[1], "roof:height")
        /\ Has(fIn[1], "building:part")) =>
         fOut[1].height = NullNum

\* min(6 m, perimeter / 5) of the outlines of the harness, in thousandths
EstimatedHeight(f) == IF f.coordinates[1] = FeatureRings[2] THEN 0 ELSE 6000

\* C16: a feature whose height is unknown gets min(6 m, perimeter / 5) as its
\* height before the minimum height is subtracted, extruded or dome.
C16_UnknownHeightEstimated ==
  (/\ fOut # <<>>
   /\ fOut[1].height = NullNum
   /\ IsNum(fOut[1].minHeight)) =>
    fOut[1].geometry.depth = Num(EstimatedHeight(fIn[1]) - fOut[1].minHeight.v)

-----------------------------------------------------------------------------
(* Properties of addBuildings on batches                                   *)

\* the ids of the features of batch that satisfy P
IdsWhere(batch, P(_)) == {batch[k].id : k \in {n \in DOMAIN batch : P(batch[n])}}

HasBuildingTag(f) == Has(f, "building")

\* the ids of the geometries of an entity
EntityIds(entity) == {entity[k].id : k \in DOMAIN entity}

\* C11: a call of filterBuildingParts that returns, returns the ids newly
\* registered by the batch (area features with building or building:part whose
\* id was not in featuresLoaded) minus the suppressed building ids: only ids
\* of features with a building tag are removed, and nothing else is added.
\* addBuildings registers exactly the new ids and materializes only returned ids.
C11_ResultIsNewMinusSuppressed ==
  [][lastOp'.op = "fetchResolved" =>
       LET batch == fetches'[lastOp'.fetch].response
           r == filterRun(batch, featuresLoaded, data.lat, data.lon)
           new == {id \in IdsWhere(batch, IsBuildingArea) : id \notin featuresLoaded}
       IN  ~r.threw =>
             /\ r.result = new \ r.skippedBuildingIds
             /\ r.skippedBuildingIds \subseteq IdsWhere(batch, HasBuildingTag)
             /\ \A id \in new : id \notin IdsWhere(batch, HasBuildingTag) => id \in r.result
             /\ featuresLoaded' = featuresLoaded \cup new
             /\ EntityIds(scene'[Len(scene')]) \subseteq r.result
    ]_vars

\* the batch <<way/40, way/41, way/42>> in some order was delivered twice: the
\* first call kept the two parts and suppressed the building, the second
\* call found every id registered and kept nothing
C11_Witness ==
  /\ Len(scene) = 2
  /\ fetches[1].response = fetches[2].response
  /\ IdsWhere(fetches[1].response, IsBuildingArea) = {cb.id, cp1.id, cp2.id}
  /\ EntityIds(scene[1]) = {cp1.id, cp2.id}
  /\ scene[2] = <<>>
  /\ featuresLoaded = {cb.id, cp1.id, cp2.id}

IsPart(f) == IsBuildingArea(f) /\ ~Has(f, "building")

WellFormed(f) == f.coordinates # <<>>

\* C17: a feature with malformed geometry is skipped alone: every new
\* well-formed building part of its batch is registered and is materialized
\* in an entity that the call adds.
C17_MalformedFeatureSkippedAlone ==
  [][lastOp'.op = "fetchResolved" =>
       LET batch == fetches'[lastOp'.fetch].response
           parts == {n \in DOMAIN batch :
                       /\ IsPart(batch[n]) /\ WellFormed(batch[n])
                       /\ batch[n].id \notin featuresLoaded}
       IN  /\ Len(scene') = Len(scene) + 1
           /\ \A n \in parts :
                /\ batch[n].id \in featuresLoaded'
                /\ batch[n].id \in EntityIds(scene'[Len(scene')])
    ]_vars

-----------------------------------------------------------------------------
(* Properties of the idle component and of growth                          *)

\* C18: with radius_m <= 0 no step marks a tile or issues a request; a tick
\* without a tracked element marks and requests nothing; and while no
\* element is tracked, a request is only ever issued by update(), for its
\* scan around the origin.
C18_IdleLoader ==
  [][/\ data'.radius_m <= 0 => (tilesLoaded' = {} /\ Len(fetches') = Len(fetches))
     /\ (~trackElement /\ lastOp'.op \in {"tick", "tickIdle"}) =>
          (lastOp'.op = "tickIdle" /\ tilesLoaded' = tilesLoaded /\ fetches' = fetches)
     /\ (Len(fetches') > Len(fetches) /\ ~trackElement') =>
          (lastOp'.op = "update" /\ lastOp'.pos = <<0, 0>>
           /\ Len(fetches') = Len(fetches) + 1)
    ]_vars

\* with a radius and without a tracked element, the request of update() is
\* there and a tick did nothing
C18_Witness ==
  /\ data.radius_m > 0
  /\ ~trackElement
  /\ lastOp.op = "tickIdle"
  /\ \E i \in DOMAIN fetches : fetches[i].epoch = epoch
  /\ tilesLoaded # {}

\* C19: a step other than update() removes no tile from tilesLoaded, no id
\* from featuresLoaded and no entity or geometry from the scene.
C19_NoUnloading ==
  [][lastOp'.op # "update" =>
       /\ tilesLoaded \subseteq tilesLoaded'
       /\ featuresLoaded \subseteq featuresLoaded'
       /\ Len(scene') >= Len(scene)
       /\ \A k \in DOMAIN scene : scene'[k] = scene[k]
    ]_vars

\* two requests of the current epoch were resolved and their entities, the
\* first with geometries, are in the scene together with the marked tiles
C19_Witness ==
  /\ lastOp.op = "fetchResolved"
  /\ Len(scene) >= 2
  /\ scene[1] # <<>>
  /\ \E i, j \in DOMAIN fetches :
       /\ i # j
       /\ fetches[i].epoch = epoch /\ fetches[j].epoch = epoch
       /\ fetches[i].state = "ok" /\ fetches[j].state = "ok"
       /\ KeysOf(fetches[i].tiles \cup fetches[j].tiles, data.zoom) \subseteq tilesLoaded
  /\ featuresLoaded # {}

-----------------------------------------------------------------------------
(* The osm-tiles component                                                 *)
(* The repository holds two copies of it: src/unnamed/part_003 keeps       *)
(* tilesLoaded as a Set of integer keys, src/osm-tiles.js as one Set of x  *)
(* per row y. fIn holds the copy the page includes. The children of        *)
(* this.el (scene) are the a-plane elements, in the order they were added. *)

TileScripts == {"part_003", "osm-tiles.js"}

TileConfig(lat, lon, radius_m, zoom, trackId) ==
  [lat |-> lat, lon |-> lon, radius_m |-> radius_m, zoom |-> zoom,
   trackId |-> trackId, url |-> "https://tile.openstreetmap.org/"]

\* a radius_m of 360 length units spans one tile at the equator and two
\* tiles at 60 degrees; (60, -180) has its rectangle across the date line
TileConfigs ==
  {TileConfig(60, 0, 360, 4, "head"),
   TileConfig(0, 0, 360, 4, "head"),
   TileConfig(60, -180, 360, 4, "head"),
   TileConfig(60, 0, 360, 4, NoTrack)}

\* the positions <<x, z>> of the tracked element
TilePositions == {<<0, 0>>, <<200, 0>>, <<-400, 0>>, <<0, 400>>, <<400, -400>>}

\* part_003 line 210: y << this.data.zoom + x. The addition binds tighter than
\* the shift, so this is y << (zoom + x), with the shift count taken modulo 32
\* (4 <= zoom + x <= 30 for the configurations above)
osmTiles_key(x, y, zoom) == ShiftLeft32(y, (zoom + x) % 32)

\* part_003 line 211: this.tilesLoaded.has(xy);
\* osm-tiles.js line 136: this.tilesLoaded[y].has(x)
osmTiles_has(script, loaded, x, y, zoom) ==
  IF script = "part_003" THEN osmTiles_key(x, y, zoom) \in loaded
  ELSE <<y, x>> \in loaded

\* part_003 line 214: this.tilesLoaded.add(xy);
\* osm-tiles.js line 139: this.tilesLoaded[y].add(x)
osmTiles_add(script, loaded, x, y, zoom) ==
  IF script = "part_003" THEN loaded \cup {osmTiles_key(x, y, zoom)}
  ELSE loaded \cup {<<y, x>>}

\* loadTile and createTile: the a-plane of tile (x, y); src is the url, given
\* by zoom/x/y, and position is <<x_m, -y_m>> in units of 1 / (2 * FP)
loadTile(x, y, d, tb, ts) ==
  [src |-> <<d.zoom, x, y>>,
   width |-> ts,
   position |-> <<(2 * (x * FP - tb[1]) + FP) * ts,
                  -((2 * (y * FP - tb[2]) + FP) * ts)>>]

\* the two loops of loadTilesAround; st is [loaded, children]
RECURSIVE osmTiles_scanLoop(_, _, _, _, _, _)
osmTiles_scanLoop(tiles, script, d, tb, ts, st) ==
  IF tiles = <<>> THEN st
  ELSE osmTiles_scanLoop(Tail(tiles), script, d, tb, ts,
         IF osmTiles_has(script, st.loaded, Head(tiles)[1], Head(tiles)[2], d.zoom)
         THEN st
         ELSE [loaded |-> osmTiles_add(script, st.loaded, Head(tiles)[1],
                                       Head(tiles)[2], d.zoom),
               children |-> Append(st.children,
                                   loadTile(Head(tiles)[1], Head(tiles)[2], d, tb, ts))])

\* loadTilesAround(pos) of osm-tiles; the bounds of its loops are computed by
\* the same statements as those of osm-geojson (tileRange), without the test
\* of radius_m
osmTiles_loadTilesAround(pos, script, d, tb, ts, loaded, children) ==
  osmTiles_scanLoop(scanOrder(tileRange(pos, d, tb, ts)), script, d, tb, ts,
                    [loaded |-> loaded, children |-> children])

\* the state after init(): the tiles around the origin are loaded, and
\* this.trackPosition is set if trackId names an element
InitTiles ==
  /\ data \in TileConfigs
  /\ fIn \in TileScripts
  /\ tileSize_m = lat2tileWidth_m(data.lat, data.zoom)
  /\ tileBase = latlon2fractionalTileId(data.lat, data.lon, data.zoom)
  /\ tilesLoaded =
       osmTiles_loadTilesAround(<<0, 0>>, fIn, data, tileBase, tileSize_m, {}, <<>>).loaded
  /\ scene =
       osmTiles_loadTilesAround(<<0, 0>>, fIn, data, tileBase, tileSize_m, {}, <<>>).children
  /\ trackElement = (data.trackId # NoTrack)
  /\ featuresLoaded = {}
  /\ fetches = <<>>
  /\ srcLoads = <<>>
  /\ epoch = 0
  /\ lastTickPos = [set |-> FALSE, pos |-> <<0, 0>>]
  /\ lastOp = LastOp("init", <<0, 0>>, 0, FALSE)
  /\ fOut = <<>>

\* tick() of osm-tiles with this.trackPosition = <<p[1], _, p[2]>>; without a
\* tracked position tick() does nothing (recorded as "tickIdle")
osmTiles_tick(p) ==
  /\ IF trackElement
     THEN /\ tilesLoaded' =
               osmTiles_loadTilesAround(p, fIn, data, tileBase, tileSize_m,
                                        tilesLoaded, scene).loaded
          /\ scene' =
               osmTiles_loadTilesAround(p, fIn, data, tileBase, tileSize_m,
                                        tilesLoaded, scene).children
          /\ lastOp' = LastOp("tick", p, 0, lastTickPos.set /\ lastTickPos.pos = p)
          /\ lastTickPos' = [set |-> TRUE, pos |-> p]
     ELSE /\ lastOp' = LastOp("tickIdle", <<0, 0>>, 0, FALSE)
          /\ UNCHANGED <<tilesLoaded, scene, lastTickPos>>
  /\ UNCHANGED <<data, tileSize_m, tileBase, featuresLoaded, trackElement, fetches,
                 srcLoads, epoch, fIn, fOut>>

NextTiles == \E p \in TilePositions : osmTiles_tick(p)

SpecTiles == InitTiles /\ [][NextTiles]_vars

-----------------------------------------------------------------------------
(* Properties of osm-tiles                                                 *)

\* the tiles of the covering rectangle of a call at pos: columns
\* floor(tileX - radius) .. ceil(tileX + radius) - 1 wrapped around the date
\* line, rows max(0, floor(tileY - radius)) .. min(nTiles, ceil(tileY + radius)) - 1
CoveringRectangle(pos) ==
  LET r == tileRange(pos, data, tileBase, tileSize_m)
  IN  {<<c % (2 ^ data.zoom), y>> : c \in r.rawStartX..(r.rawEndX - 1),
                                     y \in r.startY..(r.endY - 1)}

PlanesOf(tile) ==
  {i \in DOMAIN scene : scene[i].src = <<data.zoom, tile[1], tile[2]>>}

\* C20: every tile of the covering rectangle of the last loadTilesAround call
\* has exactly one plane among the children, and no tile ever has two planes.
\* Planes are never removed, so this holding in every state says that every
\* tile of every call's rectangle has exactly one plane from that call on.
C20_OnePlanePerTile ==
  /\ \A t \in CoveringRectangle(lastOp.pos) : Cardinality(PlanesOf(t)) = 1
  /\ \A i, j \in DOMAIN scene : scene[i].src = scene[j].src => i = j

\* the same statement for the copy that keeps one Set of x per row, and for
\* calls whose rectangle does not cross the date line
C20_RowSetsOnePlanePerTile ==
  (/\ fIn = "osm-tiles.js"
   /\ LET r == tileRange(lastOp.pos, data, tileBase, tileSize_m)
      IN  r.rawStartX >= 0 /\ r.rawEndX <= 2 ^ data.zoom) => C20_OnePlanePerTile

-----------------------------------------------------------------------------
(* tile2bbox followed by latlon2fractionalTileId: the corners of a tile,   *)
(* in millidegrees, are fed back to the forward formula.  Fractional tile  *)
(* ids are in millionths of a tile.                                        *)

MICRO == 1000000

\* Math.log(Math.tan(latRad) + 1 / Math.cos(latRad)) / Math.PI in millionths,
\* evaluated at the latitudes Gudermann16[k] (millidegrees), k \in 1..16
MercatorMicro16 ==
  <<62498, 125000, 187499, 250001, 312496, 375004, 437495, 499996,
    562506, 625009, 687504, 749990, 812492, 874988, 937486, 999992>>

\* the same for a latitude in millidegrees that is 0 or +-Gudermann16[k]
MercatorMicro(lat) ==
  IF lat = 0 THEN 0
  ELSE IF lat > 0
       THEN MercatorMicro16[CHOOSE k \in 1..16 : Gudermann16[k] = lat]
       ELSE -MercatorMicro16[CHOOSE k \in 1..16 : Gudermann16[k] = -lat]

\* latlon2fractionalTileId for lat, lon in millidegrees; <<x, y>> in
\* millionths of a tile (MICRO / 360000 = 25 / 9)
latlon2fractionalTileId_micro(lat, lon, zoom) ==
  LET nTiles == 2 ^ zoom
      x == (nTiles * (lon + 180000) * 25) \div 9
      y == (nTiles * (MICRO - MercatorMicro(lat))) \div 2
  IN  <<x, y>>

\* the zoom levels of the round trip and their valid tiles <<x, y, zoom>>
RoundTripZooms == {2, 3, 4, 5}

RoundTripInputs ==
  UNION {{<<x, y, zoom>> : x \in 0..(2 ^ zoom - 1), y \in 0..(2 ^ zoom - 1)} :
           zoom \in RoundTripZooms}

InitRoundTrip ==
  /\ data = Config(0, 0, NoSrc, 0, 4, NoTrack)
  /\ tileSize_m = 0
  /\ tileBase = <<0, 0>>
  /\ tilesLoaded = {}
  /\ featuresLoaded = {}
  /\ scene = <<>>
  /\ trackElement = FALSE
  /\ fetches = <<>>
  /\ srcLoads = <<>>
  /\ epoch = 0
  /\ lastTickPos = [set |-> FALSE, pos |-> <<0, 0>>]
  /\ lastOp = LastOp("init", <<0, 0>>, 0, FALSE)
  /\ fIn \in RoundTripInputs
  /\ fOut = <<>>

\* [south, west, north, east] of the tile, then the fractional tile ids of its
\* north-west and south-east corners
cornersOf(bbox, zoom) ==
  [bbox |-> bbox,
   nw |-> latlon2fractionalTileId_micro(bbox[3], bbox[2], zoom),
   se |-> latlon2fractionalTileId_micro(bbox[1], bbox[4], zoom)]

roundTrip ==
  /\ fOut = <<>>
  /\ fOut' = <<cornersOf(tile2bbox(fIn[1], fIn[2], fIn[3]), fIn[3])>>
  /\ lastOp' = LastOp("roundTrip", <<0, 0>>, 0, FALSE)
  /\ UNCHANGED <<data, tileSize_m, tileBase, tilesLoaded, featuresLoaded, scene,
                 trackElement, fetches, srcLoads, epoch, lastTickPos, fIn>>

NextRoundTrip == roundTrip

SpecRoundTrip == InitRoundTrip /\ [][NextRoundTrip]_vars

-----------------------------------------------------------------------------
(* Properties of the tile math                                             *)

\* a thousandth of a tile: the latitudes of the model are rounded to
\* millidegrees, which moves a fractional tile id by up to 2 * 10^-4
Near(a, b) == a - b <= 1000 /\ b - a <= 1000

-----------------------------------------------------------------------------
(* findBaseBuilding on the buildings registered by the first loop of       *)
(* filterBuildingParts, in every order of every subset of five buildings:  *)
(* a wide and a tall one that overlap, one that contains both, one inside  *)
(* both, and one elsewhere.  The part lies inside the first four.          *)

BasePart == Polygon("way/35", ("building:part" :> "yes"), Ring(3, 3, 4, 4, 1))

BaseBuildings ==
  {Polygon("way/30", [building |-> "yes"], Ring(0, 2, 10, 5, 1)),
   Polygon("way/31", [building |-> "yes"], Ring(2, 0, 6, 6, 1)),
   Polygon("way/32", [building |-> "yes"], Ring(0, 0, 10, 10, 1)),
   Polygon("way/33", [building |-> "yes"], Ring(2, 2, 5, 5, 1)),
   Polygon("way/34", [building |-> "yes"], Ring(20, 20, 22, 22, 1))}

\* the values of findBaseBuilding(part, buildingIds, id2feature) after the
\* first loop left st
baseOf(st) ==
  [id2feature |-> st.id2feature,
   buildingIds |-> st.buildingIds,
   result |-> findBaseBuilding(st.id2feature[BasePart.id], st.buildingIds,
                               st.id2feature)]

InitBase ==
  /\ data = Config(0, 0, NoSrc, 0, 4, NoTrack)
  /\ tileSize_m = 0
  /\ tileBase = <<0, 0>>
  /\ tilesLoaded = {}
  /\ featuresLoaded = {}
  /\ scene = <<>>
  /\ trackElement = FALSE
  /\ fetches = <<>>
  /\ srcLoads = <<>>
  /\ epoch = 0
  /\ lastTickPos = [set |-> FALSE, pos |-> <<0, 0>>]
  /\ lastOp = LastOp("init", <<0, 0>>, 0, FALSE)
  /\ fIn \in {s \in UNION {[1..n -> BaseBuildings] : n \in 0..Cardinality(BaseBuildings)} :
                \A i, j \in DOMAIN s : s[i] = s[j] => i = j}
  /\ fOut = <<>>

runBase ==
  /\ fOut = <<>>
  /\ fOut' = <<baseOf(registerLoop(fIn \o <<BasePart>>,
                                   [featuresLoaded |-> {}, id2feature |-> EmptyMap,
                                    buildingIds |-> <<>>, partIds |-> <<>>,
                                    threw |-> FALSE],
                                   data.lat, data.lon))>>
  /\ lastOp' = LastOp("runBase", <<0, 0>>, 0, FALSE)
  /\ UNCHANGED <<data, tileSize_m, tileBase, tilesLoaded, featuresLoaded, scene,
                 trackElement, fetches, srcLoads, epoch, lastTickPos, fIn>>

NextBase == runBase

SpecBase == InitBase /\ [][NextBase]_vars

-----------------------------------------------------------------------------
(* Properties of findBaseBuilding                                          *)

BoxArea(b) == (b.maxX - b.minX) * (b.maxY - b.minY)

\* the buildings of the finished call r whose bbox contains the part's bbox
Containing(r) ==
  {r.buildingIds[i] : i \in
     {k \in DOMAIN r.buildingIds :
        containsBox(r.id2feature[r.buildingIds[k]].tmp_bbox,
                    r.id2feature[BasePart.id].tmp_bbox)}}

\* C22: findBaseBuilding returns no building only when none contains the
\* part; otherwise it returns a containing building whose bbox is the
\* smallest, and the same building when the buildings are iterated in the
\* opposite order.
C22_SmallestContainingBuilding ==
  fOut # <<>> =>
    /\ (fOut[1].result = NoId) <=> (Containing(fOut[1]) = {})
    /\ fOut[1].result # NoId =>
         /\ fOut[1].result \in Containing(fOut[1])
         /\ \A b \in Containing(fOut[1]) :
              BoxArea(fOut[1].id2feature[fOut[1].result].tmp_bbox)
                <= BoxArea(fOut[1].id2feature[b].tmp_bbox)
    /\ fOut[1].result =
         findBaseBuilding(fOut[1].id2feature[BasePart.id],
                          Reverse(fOut[1].buildingIds), fOut[1].id2feature)

\* the same statement for buildings whose bboxes are nested in one another
C22_NestedSmallestContaining ==
  (fOut # <<>> /\ \A b, c \in Containing(fOut[1]) :
      \/ containsBox(fOut[1].id2feature[b].tmp_bbox, fOut[1].id2feature[c].tmp_bbox)
      \/ containsBox(fOut[1].id2feature[c].tmp_bbox, fOut[1].id2feature[b].tmp_bbox))
    => C22_SmallestContainingBuilding

-----------------------------------------------------------------------------
(* Properties of the suppression loop                                      *)

\* C23 as claimed: for a building with two or more associated parts, the
\* building is suppressed exactly if the part iterated last fails the test
\* min_height >= building.height of lines 1056-1057.
C23_LastPartDecides ==
  fOut # <<>> =>
    \A b \in DOMAIN fOut[1].baseBuildings2parts :
      Len(fOut[1].baseBuildings2parts[b]) >= 2 =>
        ((b \notin fOut[1].result) <=>
           ~partOnTop(fOut[1].id2feature[fOut[1].baseBuildings2parts[b][
                        Len(fOut[1].baseBuildings2parts[b])]],
                      fOut[1].id2feature[b]))

\* C23 as amended: a building with two or more associated non-roof parts is
\* suppressed exactly if at least one of them fails the test of lines
\* 1056-1057, whatever the order in which the parts are iterated.
C23_AnyPartDecides ==
  fOut # <<>> =>
    \A b \in DOMAIN fOut[1].id2feature :
      Cardinality(NonRoofPartsOf(fOut[1], b)) >= 2 =>
        ((b \notin fOut[1].result) <=>
           \E p \in NonRoofPartsOf(fOut[1], b) :
             ~partOnTop(fOut[1].id2feature[p], fOut[1].id2feature[b]))

\* a building is suppressed although the part iterated last passes the test,
\* because a part iterated before it fails
C23_Witness ==
  /\ fOut # <<>>
  /\ \E b \in DOMAIN fOut[1].baseBuildings2parts :
       /\ Len(fOut[1].baseBuildings2parts[b]) >= 2
       /\ b \notin fOut[1].result
       /\ partOnTop(fOut[1].id2feature[fOut[1].baseBuildings2parts[b][
                      Len(fOut[1].baseBuildings2parts[b])]],
                    fOut[1].id2feature[b])
       /\ ~partOnTop(fOut[1].id2feature[fOut[1].baseBuildings2parts[b][1]],
                     fOut[1].id2feature[b])

\* C24: a building with two or more associated non-roof parts is kept if it
\* has a height tag and every part has a min_height that is, as a number of
\* metres, greater than or equal to that height; it is suppressed if one of
\* the parts lies below the building's height.
C24_NumericComparison ==
  fOut # <<>> =>
    \A b \in DOMAIN fOut[1].id2feature :
      Cardinality(NonRoofPartsOf(fOut[1], b)) >= 2 =>
        ((b \in fOut[1].result) <=>
           \A p \in NonRoofPartsOf(fOut[1], b) :
             NumericOnTop(fOut[1].id2feature[p], fOut[1].id2feature[b]))

-----------------------------------------------------------------------------
(* The tile key at the default zoom: a tile is marked in an empty          *)
(* tilesLoaded and another tile is then looked up, as lines 1170-1171 and  *)
(* 1181 do.  The tiles are taken from a few columns and rows of zoom 17,   *)
(* among them the rows 10216 and 42984 = 10216 + 2^15.                     *)

InitKey ==
  /\ data = Config(0, 0, NoSrc, 0, 17, NoTrack)
  /\ tileSize_m = 0
  /\ tileBase = <<0, 0>>
  /\ tilesLoaded = {}
  /\ featuresLoaded = {}
  /\ scene = <<>>
  /\ trackElement = FALSE
  /\ fetches = <<>>
  /\ srcLoads = <<>>
  /\ epoch = 0
  /\ lastTickPos = [set |-> FALSE, pos |-> <<0, 0>>]
  /\ lastOp = LastOp("init", <<0, 0>>, 0, FALSE)
  /\ fIn \in {p \in ({0, 1, 70406, 131071} \X {0, 1, 10216, 16384, 32768, 42984, 131071})
                     \X ({0, 1, 70406, 131071} \X {0, 1, 10216, 16384, 32768, 42984, 131071}) :
                p[1] # p[2]}
  /\ fOut = <<>>

\* tilesLoaded.add(xy) for the tile fIn[1], then tilesLoaded.has(xy) for fIn[2]
markAndLookUp ==
  /\ fOut = <<>>
  /\ tilesLoaded' = markTile(tilesLoaded, tileKey(fIn[1][1], fIn[1][2], data.zoom))
  /\ fOut' = <<[has |-> tileKey(fIn[2][1], fIn[2][2], data.zoom) \in tilesLoaded']>>
  /\ lastOp' = LastOp("markAndLookUp", <<0, 0>>, 0, FALSE)
  /\ UNCHANGED <<data, tileSize_m, tileBase, featuresLoaded, scene,
                 trackElement, fetches, srcLoads, epoch, lastTickPos, fIn>>

NextKey == markAndLookUp

SpecKey == InitKey /\ [][NextKey]_vars

\* C25: at zoom 17 the keys of distinct valid tiles are distinct: after one
\* tile was marked, tilesLoaded does not report a different tile as loaded.
C25_KeyInjective ==
  fOut # <<>> => ~fOut[1].has

\* the same statement for tiles less than 2^15 rows apart
C25_KeyInjectiveNearby ==
  (fOut # <<>> /\ fIn[1][2] - fIn[2][2] < 32768 /\ fIn[2][2] - fIn[1][2] < 32768)
    => ~fOut[1].has

-----------------------------------------------------------------------------
(* The loader with a viewpoint that travels far: more than the width of    *)
(* the world (16 tiles of 360 length units at the equator) to the west, to *)
(* the east and to the north of the origin                                 *)

FarPositions == {<<0, 0>>, <<-9000, 0>>, <<9000, 0>>, <<0, -9000>>}

NextFar ==
  \/ \E newData \in Configs : update(newData)
  \/ \E p \in FarPositions : tick(p)

SpecFar == Init /\ [][NextFar]_vars

\* C26: every tile (x, y) that a loadTilesAround call scanned, marked or
\* passed to tile2bbox has 0 <= x < 2^zoom and 0 <= y < 2^zoom.
C26_TilesInRange ==
  \A t \in (IF lastOp.op \in {"update", "tick"} /\ data.radius_m > 0
            THEN LastScanned ELSE {})
           \cup UNION {fetches[i].tiles : i \in DOMAIN fetches} :
    /\ 0 <= t[1] /\ t[1] < 2 ^ data.zoom
    /\ 0 <= t[2] /\ t[2] < 2 ^ data.zoom

\* the same statement for viewpoints whose rectangle starts less than
\* 2^zoom tiles west of tile 0
C26_TilesInRangeNear ==
  [][(lastOp'.op \in {"update", "tick"} /\ data'.radius_m > 0
      /\ tileRange(lastOp'.pos, data', tileBase', tileSize_m').rawStartX >= -(2 ^ data'.zoom))
     => \A i \in 1..Len(scanOrder(tileRange(lastOp'.pos, data', tileBase', tileSize_m'))) :
          /\ 0 <= scanOrder(tileRange(lastOp'.pos, data', tileBase', tileSize_m'))[i][1]
          /\ scanOrder(tileRange(lastOp'.pos, data', tileBase', tileSize_m'))[i][1] < 2 ^ data'.zoom
          /\ 0 <= scanOrder(tileRange(lastOp'.pos, data', tileBase', tileSize_m'))[i][2]
          /\ scanOrder(tileRange(lastOp'.pos, data', tileBase', tileSize_m'))[i][2] < 2 ^ data'.zoom
    ]_vars

-----------------------------------------------------------------------------
(* Properties of batches that complete in either order                     *)

SceneIds(sc) == UNION {EntityIds(sc[i]) : i \in DOMAIN sc}

\* the scene after the batch second was added to the values r of an earlier call
ThenBatch(r, second) == addBuildings(second, r.featuresLoaded, r.scene, data).scene

\* C27: once both requests have completed, the feature ids in the scene are
\* those that the completion handlers produce when they run in the opposite
\* order, on the same responses.
C27_CompletionOrderIrrelevant ==
  (Len(fetches) = 2 /\ \A i \in 1..2 : fetches[i].state = "ok") =>
    SceneIds(scene) =
      SceneIds(ThenBatch(addBuildings(fetches[lastOp.fetch].response, {}, <<>>, data),
                         fetches[3 - lastOp.fetch].response))

\* the same statement for responses that have no building or part in common
C27_DisjointResponsesCommute ==
  (/\ Len(fetches) = 2 /\ \A i \in 1..2 : fetches[i].state = "ok"
   /\ IdsWhere(fetches[1].response, IsBuildingArea)
        \cap IdsWhere(fetches[2].response, IsBuildingArea) = {}
   /\ \A i \in 1..2 : \A k \in DOMAIN fetches[i].response :
        WellFormed(fetches[i].response[k]))
    => C27_CompletionOrderIrrelevant

\* the well-formed polygons of the catalogue and their bboxes on the plane
CataloguePolygons ==
  {k \in DOMAIN Catalogue : Catalogue[k].type = "Polygon" /\ WellFormed(Catalogue[k])}

CatalogueBBox(k) ==
  Box2FromPoints(geojsonCoords2plane(Catalogue[k].coordinates[1], data.lat, data.lon))

\* the materialized non-roof parts inside the footprint bbox of building b
\* (way/40 is the only building of the catalogue that contains a part)
MaterializedPartsOf(b) ==
  {p \in CataloguePolygons :
     /\ IsPart(Catalogue[p]) /\ ~TaggedRoof(Catalogue[p])
     /\ Catalogue[p].id \in SceneIds(scene)
     /\ containsBox(CatalogueBBox(b), CatalogueBBox(p))}

\* C28: the scene never holds a building together with two or more of its
\* non-roof parts of which one lies below the height of the building.
C28_NoBuildingUnderItsParts ==
  \A b \in CataloguePolygons :
    (HasBuildingTag(Catalogue[b]) /\ Catalogue[b].id \in SceneIds(scene)) =>
      ~(/\ Cardinality(MaterializedPartsOf(b)) >= 2
        /\ \E p \in MaterializedPartsOf(b) : ~NumericOnTop(Catalogue[p], Catalogue[b]))

\* the same statement while a single batch has completed
C28_NoBuildingUnderItsPartsOneBatch ==
  Len(scene) <= 1 => C28_NoBuildingUnderItsParts

-----------------------------------------------------------------------------
(* Properties of the origin and of the vertical extent                     *)

\* C29: after every step in which loadTilesAround or addBuildings ran,
\* tileSize_m and tileBase are the values computed from data.lat, data.lon
\* and data.zoom as they are then.
C29_TileFrameMatchesOrigin ==
  [][lastOp'.op \in {"update", "tick", "fetchResolved", "onSrcLoaded"} =>
       /\ tileSize_m' = lat2tileWidth_m(data'.lat, data'.zoom)
       /\ tileBase' = latlon2fractionalTileId(data'.lat, data'.lon, data'.zoom)
    ]_vars

\* the same statement for the steps after which data holds the attribute
\* values of the last update(), not an origin that onSrcLoaded put in
C29_TileFrameMatchesAttributes ==
  [][(/\ lastOp'.op \in {"update", "tick", "fetchResolved", "onSrcLoaded"}
      /\ data' \in Configs) =>
       /\ tileSize_m' = lat2tileWidth_m(data'.lat, data'.zoom)
       /\ tileBase' = latlon2fractionalTileId(data'.lat, data'.lon, data'.zoom)
    ]_vars

\* C30: every geometry that feature2geometry returns has a numeric, strictly
\* positive vertical extent.
C30_PositiveExtent ==
  (fOut # <<>> /\ fOut[1].geometry.kind # "null") =>
    /\ IsNum(fOut[1].geometry.depth)
    /\ fOut[1].geometry.depth.v > 0

\* the same statement for extruded features whose height and minimum height
\* resolve to numbers with height > minimum height, or whose height is unknown
\* and whose minimum height is below the estimate
C30_PositiveExtentOfProperFeatures ==
  (/\ fOut # <<>> /\ fOut[1].geometry.kind = "extrude"
   /\ IsNum(fOut[1].minHeight)
   /\ \/ IsNum(fOut[1].height) /\ fOut[1].height.v > fOut[1].minHeight.v
      \/ fOut[1].height = NullNum /\ EstimatedHeight(fIn[1]) > fOut[1].minHeight.v)
    => C30_PositiveExtent

====
